---- MODULE Spec2Model ----
(***************************************************************************)
(* Verification model of the discovery / reconciliation / dispatch write   *)
(* path of the FT-integration bridge:                                      *)
(*   ScmChangesWrapper -> Discovery -> mbtDiscoveryResultPreparer ->       *)
(*   mbtDiscoveryResultDispatcher.                                         *)
(*                                                                         *)
(* JavaScript strings are modelled as sequences of tokens.  A token is a   *)
(* single character, except that the six letters of "Action" / "action"    *)
(* form one token (no operation of the program cuts inside them for the    *)
(* names drawn here).  The JavaScript value undefined of a string field is *)
(* the one-token sequence `undefined', null is `null'; neither token can   *)
(* occur in a real name.  A numeric id of 0 stands for "no id".            *)
(***************************************************************************)
EXTENDS Integers, Sequences, FiniteSets, TLC

----------------------------------------------------------------------------
(* Bounds of the model *)

MaxTests == 2
MaxActions == 2
MaxUnits == 2

----------------------------------------------------------------------------
(* Strings *)

BS == "\\"
COLON == ":"
undefined == << "undefined" >>
null == << "null" >>
EMPTY == << >>

Str(a) == << a >>

Lower(c) ==
  CASE c = "T" -> "t"
    [] c = "Action" -> "action"
    [] c = "L" -> "l"
    [] c = "M" -> "m"
    [] c = "Resource" -> "resource"
    [] c = "MTR" -> "mtr"
    [] c = "Default" -> "default"
    [] c = "Test" -> "test"
    [] OTHER -> c

toLowerCase(s) == [i \in 1..Len(s) |-> Lower(s[i])]

startsWith(s, p) == Len(p) <= Len(s) /\ SubSeq(s, 1, Len(p)) = p

\* 1-based position of the first / last occurrence of c in s, 0 when absent
\* (JavaScript: 0-based, -1 when absent).
indexOf(s, c) ==
  IF \E i \in 1..Len(s) : s[i] = c
    THEN CHOOSE i \in 1..Len(s) : s[i] = c /\ \A j \in 1..(i-1) : s[j] # c
    ELSE 0

lastIndexOf(s, c) ==
  IF \E i \in 1..Len(s) : s[i] = c
    THEN CHOOSE i \in 1..Len(s) : s[i] = c /\ \A j \in (i+1)..Len(s) : s[j] # c
    ELSE 0

Falsy(s) == s = undefined \/ s = null \/ s = EMPTY

\* utils.isBlank
isBlank(str) == str = null \/ str = undefined \/ str = EMPTY

\* String.prototype.split on a one-character separator
RECURSIVE split(_, _)
split(s, sep) ==
  LET i == indexOf(s, sep)
  IN IF i = 0 THEN << s >>
     ELSE << SubSeq(s, 1, i - 1) >> \o split(SubSeq(s, i + 1, Len(s)), sep)

\* String.prototype.indexOf for a string argument: the 1-based position of
\* the first occurrence of sub in s, 0 when absent
indexOfString(s, sub) ==
  LET at(i) == i + Len(sub) - 1 <= Len(s) /\ SubSeq(s, i, i + Len(sub) - 1) = sub
  IN IF \E i \in 1..(Len(s) + 1) : at(i)
       THEN CHOOSE i \in 1..(Len(s) + 1) : at(i) /\ \A j \in 1..(i - 1) : ~at(j)
       ELSE 0

\* String.prototype.substring(start, end) with 0-based arguments: arguments
\* below 0 count as 0, above the length as the length, and are swapped when
\* start exceeds end
substring(s, start, end) ==
  LET clamp(n) == IF n < 0 THEN 0 ELSE IF n > Len(s) THEN Len(s) ELSE n
      a == clamp(start)
      b == clamp(end)
  IN IF a <= b THEN SubSeq(s, a + 1, b) ELSE SubSeq(s, b + 1, a)

\* String.prototype.replace(/\//g, "\\")
slashesToBackslashes(s) == [i \in 1..Len(s) |-> IF s[i] = "/" THEN BS ELSE s[i]]

\* utils.getTestPathPrefix, on the (package, name) pair it reads
TestPathPrefixOf(testPackage, testName) ==
  (IF Falsy(testPackage) THEN EMPTY ELSE testPackage \o Str(BS)) \o testName

getTestPathPrefix(test, orgPath) ==
  IF orgPath
    THEN TestPathPrefixOf(test.oldPackageName, test.oldName)
    ELSE TestPathPrefixOf(test.packageName, test.name)

extractScmPathFromActionPath(repositoryPath) ==
  LET index == indexOf(repositoryPath, COLON)
  IN IF index = 0 THEN repositoryPath
     ELSE toLowerCase(SubSeq(repositoryPath, 1, index - 1))

\* null when the path is not of the form <test path>\Action<n>
extractScmTestPath(scmPath0) ==
  LET scmPath == extractScmPathFromActionPath(scmPath0)
      index == lastIndexOf(scmPath, BS)
      scmTestPath == SubSeq(scmPath, 1, index - 1)
      actionNumber == SubSeq(scmPath, index + 1, Len(scmPath) - 1)
  IN IF index = 0 THEN null
     ELSE IF startsWith(toLowerCase(actionNumber), Str("action"))
            THEN scmTestPath
            ELSE null

extractActionLogicalNameFromActionPath(repositoryPath) ==
  LET index == indexOf(repositoryPath, COLON)
      rest == SubSeq(repositoryPath, index + 1, Len(repositoryPath))
      next == indexOf(rest, COLON)
  IN IF index = 0 THEN EMPTY
     ELSE IF next = 0 THEN rest ELSE SubSeq(rest, 1, next - 1)

extractActionNameFromActionPath(repositoryPath) ==
  LET index == indexOf(repositoryPath, COLON)
      part0 == IF index = 0 THEN repositoryPath
               ELSE SubSeq(repositoryPath, 1, index - 1)
      last == lastIndexOf(part0, BS)
  IN SubSeq(part0, last + 1, Len(part0))

----------------------------------------------------------------------------
(* Insertion-ordered maps (JavaScript Map): sequences of <<key, value>>    *)
(* with pairwise distinct keys.                                            *)

MapHas(m, k) == \E i \in 1..Len(m) : m[i][1] = k

MapGet(m, k) == m[CHOOSE i \in 1..Len(m) : m[i][1] = k][2]

MapSet(m, k, v) ==
  IF MapHas(m, k)
    THEN [i \in 1..Len(m) |-> IF m[i][1] = k THEN << k, v >> ELSE m[i]]
    ELSE Append(m, << k, v >>)

MapDelete(m, k) == SelectSeq(m, LAMBDA e : e[1] # k)

MapKeys(m) == [i \in 1..Len(m) |-> m[i][1]]

RECURSIVE MapFromPairs(_, _)
MapFromPairs(pairs, acc) ==
  IF pairs = << >> THEN acc
  ELSE MapFromPairs(Tail(pairs), MapSet(acc, Head(pairs)[1], Head(pairs)[2]))

SeqHas(s, x) == \E i \in 1..Len(s) : s[i] = x

RECURSIVE FlatMap(_)
FlatMap(ss) == IF ss = << >> THEN << >> ELSE Head(ss) \o FlatMap(Tail(ss))

----------------------------------------------------------------------------
(* State *)

VARIABLES
  pc,        \* position of the handler in the flow being modelled
  tests,     \* DiscoveryResult._tests, a sequence of AutomatedTest
  isFullSync,\* DiscoveryResult._isFullSync
  units,     \* remote units (model items with a repository path history), by id
  folders,   \* remote child folders of the auto-discovered folder
  params,    \* remote unit parameters created so far
  nextId,    \* next id the remote system assigns
  calls,     \* remote write calls issued so far, in order
  foldersMap,\* map returned by the last updateParentFolders call
  toolType,  \* the configured tool type, "uft" or "mbt"
  scm,       \* ScmChangesWrapper: the two commits, the diff entries, the result
  scan,      \* Discovery: the working tree and the instance's collections
  report,    \* JUnitXmlIterator: the lookup map, the cases, the instance's fields
  conv,      \* the data table handed to the converter, and its payload
  event,     \* eventHandler: the persisted sync state and the event's progress
  exec,      \* handleExecutorEvent: the events sent to the remote system
  page,      \* fetchEntities: the matching entities and the pages read
  upload,    \* buildArtifacts: the uploads issued and the artifact ids recorded
  ftl        \* FTL.runTool: the exit code of the launcher and its mapping

vars == << pc, tests, isFullSync, units, folders, params, nextId, calls, foldersMap,
           toolType, scm, scan, report, conv, event, exec, page, upload, ftl >>

\* the variables of the result aggregation, the data preparation and the event
\* handling, which the discovery flows leave alone
beside == << exec, page, upload, ftl >>
NoBeside == exec = << >> /\ page = << >> /\ upload = << >> /\ ftl = << >>
aside == << report, conv, event, beside >>
NoAside == report = << >> /\ conv = << >> /\ event = << >> /\ NoBeside

----------------------------------------------------------------------------
(* Discovery: the records built by the scan *)

\* OctaneStatus; S_UNSET is a status field that was never assigned
S_NEW == "NEW"
S_MODIFIED == "MODIFIED"
S_DELETED == "DELETED"
S_NONE == "NONE"
S_UNSET == "undefined"

\* UftoTestAction.parameters: left undefined, or a list of parameters
NoParameters == [set |-> FALSE, list |-> << >>]
Parameters(list) == [set |-> TRUE, list |-> list]

\* Discovery.parseActionComponents: a fresh action of a test
parseActionComponentsNoStatus(actionName, testName) ==
  [ name |-> actionName, testName |-> testName, octaneStatus |-> S_UNSET,
    logicalName |-> undefined, repositoryPath |-> undefined, id |-> 0,
    moved |-> FALSE, oldTestName |-> undefined, parameters |-> NoParameters ]

parseActionComponents(actionName, testName) ==
  [ name |-> actionName, testName |-> testName, octaneStatus |-> S_NEW,
    logicalName |-> undefined, repositoryPath |-> undefined, id |-> 0,
    moved |-> FALSE, oldTestName |-> undefined, parameters |-> NoParameters ]

\* Discovery.setActionPath
setActionPath(action, actionPathPrefix) ==
  LET actionName == IF Falsy(action.logicalName) THEN action.name
                    ELSE action.logicalName
  IN [action EXCEPT !.repositoryPath =
        actionPathPrefix \o Str(BS) \o action.name \o Str(COLON) \o actionName]

\* Discovery.fillActionsLogicalName, for one action: dep is the logical name
\* of the action's dependency node, undefined when the document has none.
fillActionsLogicalName(action, dep, actionPathPrefix) ==
  IF Falsy(dep) THEN action
  ELSE setActionPath([action EXCEPT !.logicalName = dep], actionPathPrefix)

\* Discovery.readParameters / parseActionMtrFile: mtr is the list of parameter
\* names the action's resource file declares, undefined when the file is missing.
readParameters(action, mtr) ==
  IF mtr = undefined THEN action
  ELSE [action EXCEPT !.parameters =
          Parameters([k \in 1..Len(mtr) |-> [name |-> << mtr[k] >>, octaneStatus |-> S_NEW]])]

\* Discovery.createAutomatedTest
createAutomatedTest(packageName, testName, testType) ==
  [ name |-> testName, packageName |-> packageName, uftOneTestType |-> testType,
    executable |-> TRUE,
    actions |-> << >>, octaneStatus |-> S_NEW, isMoved |-> FALSE,
    oldName |-> undefined, oldPackageName |-> undefined ]

\* Discovery.isTestMoved
isTestMoved(test) ==
  IF ~Falsy(test.oldName) /\ test.oldPackageName # undefined
       /\ ~Falsy(test.name) /\ test.packageName # undefined
    THEN test.name # test.oldName \/ test.packageName # test.oldPackageName
    ELSE FALSE

\* Discovery.updateOldData: the old name and package of a test, read from
\* the old path of the affected file
updateOldData(test, oldPath) ==
  IF isBlank(oldPath) THEN test
  ELSE
    LET parts == split(oldPath, "/")
        oldTestName == IF Len(parts) >= 2 THEN parts[Len(parts) - 1] ELSE undefined
        oldPackageName ==
          IF Len(parts) > 2
            THEN slashesToBackslashes(
                   substring(oldPath, 0, (indexOfString(oldPath, oldTestName) - 1) - 1))
            ELSE EMPTY
    IN [test EXCEPT !.oldName = oldTestName, !.oldPackageName = oldPackageName]

\* mbtDiscoveryResultPreparer.convertUnitToAction
convertUnitToAction(unit, octStatus) ==
  [ name |-> unit.name, testName |-> undefined, octaneStatus |-> octStatus,
    logicalName |-> unit.name, repositoryPath |-> unit.repository_path,
    id |-> unit.id, moved |-> FALSE, oldTestName |-> undefined,
    parameters |-> NoParameters ]

\* An action built by the scan carries its test's name; a marker built by
\* convertUnitToAction carries none.
IsLocal(action) == action.testName # undefined

----------------------------------------------------------------------------
(* The remote system, as the client reads it *)

RECURSIVE FoldSeq(_, _, _)
FoldSeq(Op(_, _), acc, s) ==
  IF s = << >> THEN acc ELSE FoldSeq(Op, Op(acc, Head(s)), Tail(s))

\* OctaneClient.fetchUnits with the query repository_path = "<prefix>*" for
\* one of the prefixes; entities come ordered by id.
fetchUnitsByPrefix(us, prefixes) ==
  SelectSeq(us, LAMBDA u : u.repository_path # null
                  /\ \E i \in 1..Len(prefixes) : startsWith(u.repository_path, prefixes[i]))

\* OctaneClient.fetchUnits with the query repository_path IN paths
fetchUnitsByPath(us, paths) ==
  SelectSeq(us, LAMBDA u : u.repository_path # null /\ SeqHas(paths, u.repository_path))

----------------------------------------------------------------------------
(* mbtDiscoveryResultPreparer *)

TestIdx(ts, P(_)) == SelectSeq([i \in 1..Len(ts) |-> i], LAMBDA i : P(ts[i]))

\* Array.prototype.splice(arr.indexOf(first), count) as handleDeletedTests
\* calls it: nothing is removed when there is no first element.
spliceFrom(arr, sub) ==
  IF sub = << >> THEN arr
  ELSE LET start == CHOOSE i \in 1..Len(arr) : arr[i] = sub[1]
       IN SubSeq(arr, 1, start - 1) \o SubSeq(arr, start + Len(sub), Len(arr))

markersOf(unitsOfTest, status) ==
  [k \in 1..Len(unitsOfTest) |-> convertUnitToAction(unitsOfTest[k], status)]

RECURSIVE handleDeletedTestsLoop(_, _, _)
handleDeletedTestsLoop(ts, idx, unitsFromServer) ==
  IF idx = << >> THEN ts
  ELSE LET i == Head(idx)
           actionPathPrefix == getTestPathPrefix(ts[i], FALSE)
           unitsOfTest == SelectSeq(unitsFromServer,
                            LAMBDA u : startsWith(u.repository_path, actionPathPrefix))
       IN handleDeletedTestsLoop(
            [ts EXCEPT ![i].actions = markersOf(unitsOfTest, S_DELETED)],
            Tail(idx),
            spliceFrom(unitsFromServer, unitsOfTest))

handleDeletedTests(ts, us) ==
  LET deleted == TestIdx(ts, LAMBDA t : t.octaneStatus = S_DELETED)
      prefixes == [k \in 1..Len(deleted) |-> getTestPathPrefix(ts[deleted[k]], FALSE)]
  IN IF deleted = << >> THEN ts
     ELSE handleDeletedTestsLoop(ts, deleted, fetchUnitsByPrefix(us, prefixes))

\* the filter callback of removeExistingUnits, over one action list
RECURSIVE removeExistingUnitsOf(_, _)
removeExistingUnitsOf(actions, octaneUnitsMap) ==
  IF actions = << >> THEN << >>
  ELSE LET action == Head(actions)
           rest == removeExistingUnitsOf(Tail(actions), octaneUnitsMap)
       IN IF Falsy(action.repositoryPath) THEN << action >> \o rest
          ELSE IF ~MapHas(octaneUnitsMap, action.repositoryPath) THEN << action >> \o rest
          ELSE LET u == MapGet(octaneUnitsMap, action.repositoryPath)
               IN IF u.test_runner # "null" THEN rest
                  ELSE << [action EXCEPT !.octaneStatus = S_MODIFIED, !.id = u.id] >> \o rest

removeExistingUnitsKeepingAll(ts, octaneUnitsMap) ==
  LET keep(action) ==
        IF Falsy(action.repositoryPath) \/ ~MapHas(octaneUnitsMap, action.repositoryPath)
          THEN action
          ELSE [action EXCEPT !.octaneStatus = S_MODIFIED,
                              !.id = MapGet(octaneUnitsMap, action.repositoryPath).id]
  IN [i \in 1..Len(ts) |->
        [ts[i] EXCEPT !.actions = [a \in 1..Len(ts[i].actions) |-> keep(ts[i].actions[a])]]]

removeExistingUnits(ts, octaneUnitsMap) ==
  [i \in 1..Len(ts) |->
     [ts[i] EXCEPT !.actions = removeExistingUnitsOf(ts[i].actions, octaneUnitsMap)]]

unitsByRepositoryPath(unitsFromServer) ==
  MapFromPairs([k \in 1..Len(unitsFromServer) |->
                  << unitsFromServer[k].repository_path, unitsFromServer[k] >>], << >>)

handleAddedTests(ts, us) ==
  LET newTests == TestIdx(ts, LAMBDA t : t.octaneStatus = S_NEW)
      notMoved == SelectSeq(newTests, LAMBDA i : ~ts[i].isMoved)
      newActionsRepositoryPaths ==
        FlatMap([k \in 1..Len(notMoved) |->
                   [a \in 1..Len(ts[notMoved[k]].actions) |->
                      ts[notMoved[k]].actions[a].repositoryPath]])
      unitsFromServer == fetchUnitsByPath(us, newActionsRepositoryPaths)
  IN IF newTests = << >> THEN ts
     ELSE IF newActionsRepositoryPaths = << >> THEN ts
     ELSE IF unitsFromServer = << >> THEN ts
     ELSE removeExistingUnits(ts, unitsByRepositoryPath(unitsFromServer))

\* References to the actions of the tests idx, in flatMap order: << test, action >>
actionRefs(ts, idx) ==
  FlatMap([k \in 1..Len(idx) |->
             [a \in 1..Len(ts[idx[k]].actions) |-> << idx[k], a >>]])

actionAt(ts, ref) == ts[ref[1]].actions[ref[2]]

\* handle case 1 for added actions: returns the tests and the action map left
handleUpdatedTestAddedActionCase(ts, scmPathToActionMap, scmPathToUnitMap) ==
  LET addedActions == SelectSeq(MapKeys(scmPathToActionMap),
                                LAMBDA key : ~MapHas(scmPathToUnitMap, key))
      mark(acc, p) ==
        LET ref == MapGet(scmPathToActionMap, p)
        IN [acc EXCEPT ![ref[1]].actions[ref[2]].octaneStatus = S_NEW]
  IN [ tests |-> FoldSeq(mark, ts, addedActions),
       actionMap |-> SelectSeq(scmPathToActionMap,
                               LAMBDA e : MapHas(scmPathToUnitMap, e[1])) ]

\* handle case 2 for deleted actions: returns the tests and the unit map left
handleUpdatedTestDeletedActionCase(ts, scmPathToActionMap, scmPathToUnitMap, updatedTests) ==
  LET deletedActions == SelectSeq(MapKeys(scmPathToUnitMap),
                                  LAMBDA key : ~MapHas(scmPathToActionMap, key))
      each(acc, s) ==
        LET pushTo(acc2, i) ==
              IF toLowerCase(getTestPathPrefix(acc2[i], FALSE)) = extractScmTestPath(s)
                THEN [acc2 EXCEPT ![i].actions =
                        Append(@, convertUnitToAction(MapGet(scmPathToUnitMap, s),
                                                      S_DELETED))]
                ELSE acc2
        IN IF extractScmTestPath(s) = null THEN acc
           ELSE FoldSeq(pushTo, acc, updatedTests)
  IN [ tests |-> FoldSeq(each, ts, deletedActions),
       unitMap |-> SelectSeq(scmPathToUnitMap,
                             LAMBDA e : MapHas(scmPathToActionMap, e[1])) ]

handleUpdatedTestUpdatedActionCaseKeepingParams(ts, scmPathToActionMap, scmPathToUnitMap) ==
  LET sameActions == SelectSeq(MapKeys(scmPathToUnitMap),
                               LAMBDA key : MapHas(scmPathToActionMap, key))
      each(acc, scmPath) ==
        LET ref == MapGet(scmPathToActionMap, scmPath)
            action == actionAt(acc, ref)
            unit == MapGet(scmPathToUnitMap, scmPath)
            logicalName ==
              toLowerCase(extractActionLogicalNameFromActionPath(unit.repository_path))
            action2 ==
              IF toLowerCase(action.logicalName) = logicalName
                THEN [action EXCEPT !.octaneStatus = S_NONE]
                ELSE [action EXCEPT !.id = unit.id, !.octaneStatus = S_MODIFIED]
        IN [acc EXCEPT ![ref[1]].actions[ref[2]] = action2]
  IN FoldSeq(each, ts, sameActions)

handleUpdatedTestUpdatedActionCaseKeepingId(ts, scmPathToActionMap, scmPathToUnitMap) ==
  LET sameActions == SelectSeq(MapKeys(scmPathToUnitMap),
                               LAMBDA key : MapHas(scmPathToActionMap, key))
      noneParams(ps) ==
        [ps EXCEPT !.list = [k \in 1..Len(@) |-> [@[k] EXCEPT !.octaneStatus = S_NONE]]]
      each(acc, scmPath) ==
        LET ref == MapGet(scmPathToActionMap, scmPath)
            action == actionAt(acc, ref)
            unit == MapGet(scmPathToUnitMap, scmPath)
            logicalName ==
              toLowerCase(extractActionLogicalNameFromActionPath(unit.repository_path))
            action2 ==
              IF toLowerCase(action.logicalName) = logicalName
                THEN [action EXCEPT !.octaneStatus = S_NONE]
                ELSE [action EXCEPT !.octaneStatus = S_MODIFIED]
        IN [acc EXCEPT ![ref[1]].actions[ref[2]] =
              [action2 EXCEPT !.parameters = noneParams(@)]]
  IN FoldSeq(each, ts, sameActions)

\* handle case 3 for updated actions
handleUpdatedTestUpdatedActionCase(ts, scmPathToActionMap, scmPathToUnitMap) ==
  LET sameActions == SelectSeq(MapKeys(scmPathToUnitMap),
                               LAMBDA key : MapHas(scmPathToActionMap, key))
      noneParams(ps) ==
        [ps EXCEPT !.list = [k \in 1..Len(@) |-> [@[k] EXCEPT !.octaneStatus = S_NONE]]]
      each(acc, scmPath) ==
        LET ref == MapGet(scmPathToActionMap, scmPath)
            action == actionAt(acc, ref)
            unit == MapGet(scmPathToUnitMap, scmPath)
            logicalName ==
              toLowerCase(extractActionLogicalNameFromActionPath(unit.repository_path))
            action2 ==
              IF toLowerCase(action.logicalName) = logicalName
                THEN [action EXCEPT !.octaneStatus = S_NONE]
                ELSE [action EXCEPT !.id = unit.id, !.octaneStatus = S_MODIFIED]
        IN [acc EXCEPT ![ref[1]].actions[ref[2]] =
              [action2 EXCEPT !.parameters = noneParams(@)]]
  IN FoldSeq(each, ts, sameActions)

\* returns [failed, tests]: failed when reading a property of undefined throws
handleUpdatedTests(ts, us) ==
  LET modified == TestIdx(ts, LAMBDA t : t.octaneStatus = S_MODIFIED)
      updatedTests == SelectSeq(modified, LAMBDA i : ~ts[i].isMoved)
      refs == actionRefs(ts, updatedTests)
      throws == \E k \in 1..Len(refs) : actionAt(ts, refs[k]).repositoryPath = undefined
      scmPathToActionMap ==
        MapFromPairs([k \in 1..Len(refs) |->
           << extractScmPathFromActionPath(actionAt(ts, refs[k]).repositoryPath), refs[k] >>],
           << >>)
      prefixes == [k \in 1..Len(updatedTests) |->
                     getTestPathPrefix(ts[updatedTests[k]], FALSE)]
      unitsFromServer == fetchUnitsByPrefix(us, prefixes)
      scmPathToUnitMap ==
        MapFromPairs([k \in 1..Len(unitsFromServer) |->
           << extractScmPathFromActionPath(unitsFromServer[k].repository_path),
              unitsFromServer[k] >>], << >>)
      r1 == handleUpdatedTestAddedActionCase(ts, scmPathToActionMap, scmPathToUnitMap)
      r2 == handleUpdatedTestDeletedActionCase(r1.tests, r1.actionMap, scmPathToUnitMap,
                                               updatedTests)
      r3 == handleUpdatedTestUpdatedActionCase(r2.tests, r1.actionMap, r2.unitMap)
  IN IF updatedTests = << >> THEN [failed |-> FALSE, tests |-> ts]
     ELSE IF throws THEN [failed |-> TRUE, tests |-> ts]
     ELSE [failed |-> FALSE, tests |-> r3]

markMovedActionKeepingStatus(action, unit, oldName) ==
  [action EXCEPT !.id = unit.id, !.moved = TRUE, !.oldTestName = oldName,
                 !.parameters = Parameters(<< >>)]

\* handleMovedTests, "handle moved actions": a local action matched to a unit
markMovedAction(action, unit, oldName) ==
  [action EXCEPT !.id = unit.id, !.octaneStatus = S_MODIFIED, !.moved = TRUE,
                 !.oldTestName = oldName, !.parameters = Parameters(<< >>)]

\* the body of movedTests.forEach in handleMovedTests, for the test aTest
handleMovedTest(aTest, unitsFromServer) ==
  LET origActionPathPrefix == getTestPathPrefix(aTest, TRUE)
      unitsOfTest == SelectSeq(unitsFromServer,
                       LAMBDA u : startsWith(u.repository_path, origActionPathPrefix))
      actionNameToUnitMap ==
        MapFromPairs([k \in 1..Len(unitsOfTest) |->
           << extractActionNameFromActionPath(unitsOfTest[k].repository_path),
              unitsOfTest[k] >>], << >>)
      actionNameToUftActionMap ==
        MapFromPairs([k \in 1..Len(aTest.actions) |->
           << aTest.actions[k].name, aTest.actions[k] >>], << >>)
      addedActions == SelectSeq(MapKeys(actionNameToUftActionMap),
                                LAMBDA key : ~MapHas(actionNameToUnitMap, key))
      deletedActionNames == SelectSeq(MapKeys(actionNameToUnitMap),
                                LAMBDA key : ~MapHas(actionNameToUftActionMap, key))
      markers == [k \in 1..Len(deletedActionNames) |->
                    [convertUnitToAction(MapGet(actionNameToUnitMap, deletedActionNames[k]),
                                         S_DELETED)
                       EXCEPT !.name = deletedActionNames[k]]]
      withMarkers == aTest.actions \o markers
      movedAction(action) ==
        IF ~SeqHas(addedActions, action.name) /\ ~SeqHas(deletedActionNames, action.name)
             /\ MapHas(actionNameToUnitMap, action.name)
          THEN markMovedAction(action, MapGet(actionNameToUnitMap, action.name),
                               aTest.oldName)
          ELSE action
  IN [ test |-> [aTest EXCEPT !.actions =
                   [k \in 1..Len(withMarkers) |-> movedAction(withMarkers[k])]],
       unitsLeft |-> SelectSeq(unitsFromServer, LAMBDA u : ~SeqHas(unitsOfTest, u)) ]

RECURSIVE handleMovedTestsLoop(_, _, _)
handleMovedTestsLoop(ts, idx, unitsFromServer) ==
  IF idx = << >> THEN ts
  ELSE LET r == handleMovedTest(ts[Head(idx)], unitsFromServer)
       IN handleMovedTestsLoop([ts EXCEPT ![Head(idx)] = r.test], Tail(idx), r.unitsLeft)

handleMovedTests(ts, us) ==
  LET modified == TestIdx(ts, LAMBDA t : t.octaneStatus = S_MODIFIED)
      movedTests == SelectSeq(modified, LAMBDA i : ts[i].isMoved)
      prefixes == [k \in 1..Len(movedTests) |-> getTestPathPrefix(ts[movedTests[k]], TRUE)]
  IN IF movedTests = << >> THEN ts
     ELSE handleMovedTestsLoop(ts, movedTests, fetchUnitsByPrefix(us, prefixes))

----------------------------------------------------------------------------
(* The remote system, as the client writes it.  A field of an update body  *)
(* that the client leaves out is KEEP ("keep", a parent of 0).             *)

KEEP == << "keep" >>

Call(op, phase, body) == [op |-> op, phase |-> phase, body |-> body]

\* the unique elements of s, in order of first occurrence (JavaScript Set)
RECURSIVE SetOf(_, _)
SetOf(s, acc) ==
  IF s = << >> THEN acc
  ELSE SetOf(Tail(s), IF SeqHas(acc, Head(s)) THEN acc ELSE Append(acc, Head(s)))

foldersByName(fs) ==
  MapFromPairs([k \in 1..Len(fs) |-> << fs[k].name, fs[k] >>], << >>)

\* OctaneClient.fetchChildFolders with a name filter
fetchChildFolders(fs, nameFilters) ==
  SelectSeq(fs, LAMBDA f : SeqHas(nameFilters, f.name))

\* the folders the remote system creates for OctaneClient.createFolders
createdFolders(names, firstId) ==
  [k \in 1..Len(names) |-> [id |-> firstId + k - 1, name |-> names[k]]]

folderName(fs, id) ==
  IF \E k \in 1..Len(fs) : fs[k].id = id
    THEN fs[CHOOSE k \in 1..Len(fs) : fs[k].id = id].name
    ELSE undefined

\* OctaneClient.fetchUnitsFromFolders
fetchUnitsFromFolders(us, fs, folderNames) ==
  SelectSeq(us, LAMBDA u : SeqHas(folderNames, folderName(fs, u.parent)))

\* the remote system's effect of OctaneClient.updateUnits
applyUnitUpdates(us, bodies) ==
  LET upd(acc, b) ==
        [k \in 1..Len(acc) |->
           IF acc[k].id # b.id THEN acc[k]
           ELSE [ id |-> acc[k].id,
                  name |-> IF b.name = KEEP THEN acc[k].name ELSE b.name,
                  repository_path |-> IF b.repository_path = KEEP
                                        THEN acc[k].repository_path
                                        ELSE IF b.repository_path = undefined THEN null
                                        ELSE b.repository_path,
                  test_runner |-> IF b.test_runner = "keep" THEN acc[k].test_runner
                                  ELSE b.test_runner,
                  parent |-> IF b.parent = 0 THEN acc[k].parent ELSE b.parent,
                  automation_status |-> IF b.automation_status = "keep"
                                          THEN acc[k].automation_status
                                          ELSE b.automation_status ]]
  IN FoldSeq(upd, us, bodies)

\* the remote system's effect of OctaneClient.updateFolders
applyFolderUpdates(fs, bodies) ==
  LET upd(acc, b) ==
        [k \in 1..Len(acc) |-> IF acc[k].id = b.id THEN [acc[k] EXCEPT !.name = b.name]
                               ELSE acc[k]]
  IN FoldSeq(upd, fs, bodies)

----------------------------------------------------------------------------
(* mbtDiscoveryResultDispatcher *)

actionsByStatus(ts, status) ==
  SelectSeq(FlatMap([i \in 1..Len(ts) |-> ts[i].actions]),
            LAMBDA a : a.octaneStatus = status)

\* buildUnit: the name the unit gets
unitName(action) ==
  IF Falsy(action.logicalName) \/ startsWith(action.logicalName, Str("Action"))
    THEN action.testName \o Str(COLON) \o action.name
    ELSE action.logicalName

\* buildUnit for an action without id: the body of a unit to create
buildNewUnit(action, parentId) ==
  [ name |-> unitName(action), repository_path |-> action.repositoryPath,
    parent |-> parentId, test_runner |-> "executor",
    automation_status |-> "automated" ]

\* buildUnit for an action with id: the body of a unit update
buildUnit(action, parentId) ==
  [ id |-> action.id, name |-> unitName(action),
    repository_path |-> action.repositoryPath,
    parent |-> parentId,
    test_runner |-> "keep", automation_status |-> "keep" ]

\* createParentFolders: [map, created], created being the folders to create
createParentFolders(fs, newActions, firstId) ==
  LET existingSubFoldersMap == foldersByName(fs)
      testNames == SelectSeq(SetOf([k \in 1..Len(newActions) |-> newActions[k].testName],
                                   << >>),
                             LAMBDA n : ~MapHas(existingSubFoldersMap, n))
      created == createdFolders(testNames, firstId)
  IN [ created |-> created,
       map |-> FoldSeq(LAMBDA m, f : MapSet(m, f.name, f), existingSubFoldersMap, created) ]

\* dispatchNewActions: the units to create, for the actions whose parent
\* folder is resolved
unitsToAdd(newActions, map) ==
  LET ok == SelectSeq(newActions,
                      LAMBDA a : a.testName # undefined /\ MapHas(map, a.testName))
  IN [k \in 1..Len(ok) |-> buildNewUnit(ok[k], MapGet(map, ok[k].testName).id)]

\* buildUnit / createUnitParam: the parameter bodies, each naming its parent
\* unit by repository path
paramsToAdd(newActions, map) ==
  LET ok == SelectSeq(newActions,
                      LAMBDA a : a.testName # undefined /\ MapHas(map, a.testName))
      ps(a) == [k \in 1..Len(a.parameters.list) |->
                  [name |-> a.parameters.list[k].name, model_item |-> a.repositoryPath]]
  IN FlatMap([k \in 1..Len(ok) |-> ps(ok[k])])

\* OctaneClient.createUnits: the remote units created, with their new ids
unitsCreated(bodies, firstId) ==
  [k \in 1..Len(bodies) |->
     [ id |-> firstId + k - 1, name |-> bodies[k].name,
       repository_path |-> IF bodies[k].repository_path = undefined THEN null
                           ELSE bodies[k].repository_path,
       test_runner |-> bodies[k].test_runner, parent |-> bodies[k].parent,
       automation_status |-> bodies[k].automation_status ]]

\* OctaneClient.createUnits: the parameters posted, re-pointed at the created
\* unit with the same repository path (parent 0: left with the path only)
paramsCreated(pbodies, newUnits) ==
  LET unitsMap == unitsByRepositoryPath(
                    SelectSeq(newUnits, LAMBDA u : u.repository_path # null))
  IN IF unitsMap = << >> THEN << >>
     ELSE [k \in 1..Len(pbodies) |->
             [ name |-> pbodies[k].name,
               parent |-> IF ~Falsy(pbodies[k].model_item)
                               /\ MapHas(unitsMap, pbodies[k].model_item)
                            THEN MapGet(unitsMap, pbodies[k].model_item).id
                            ELSE 0 ]]

unitsToDeleteKeepingRunner(deletedActions) ==
  LET ok == SelectSeq(deletedActions, LAMBDA a : a.id # 0)
  IN [k \in 1..Len(ok) |->
        [ id |-> ok[k].id, name |-> KEEP, repository_path |-> null, parent |-> 0,
          automation_status |-> "not_automated", test_runner |-> "keep" ]]

\* dispatchDeletedActions: the update bodies
unitsToDelete(deletedActions) ==
  LET ok == SelectSeq(deletedActions, LAMBDA a : a.id # 0)
  IN [k \in 1..Len(ok) |->
        [ id |-> ok[k].id, name |-> KEEP, repository_path |-> null, parent |-> 0,
          automation_status |-> "not_automated", test_runner |-> "null" ]]

countDistinctTestsLoose(us) ==
  Cardinality({ extractScmTestPath(us[k].repository_path) : k \in 1..Len(us) }) - 1

\* countDistinctTests; reading the path of an archived unit (null) throws
countDistinctTests(us) ==
  Cardinality({ extractScmTestPath(us[k].repository_path) : k \in 1..Len(us) })

\* updateParentFolders: [failed, map, renamed, created]
updateParentFolders(us, fs, updatedActions, firstId) ==
  LET oldNameToNewNameMap ==
        FoldSeq(LAMBDA m, a :
                  IF a.moved /\ ~Falsy(a.testName) /\ ~Falsy(a.oldTestName)
                       /\ a.testName # a.oldTestName
                    THEN MapSet(m, a.oldTestName, a.testName) ELSE m,
                << >>, updatedActions)
      newNames == [k \in 1..Len(oldNameToNewNameMap) |-> oldNameToNewNameMap[k][2]]
      existingFoldersMap == foldersByName(fetchChildFolders(fs, newNames))
      folderNamesToUpdate0 ==
        MapKeys(SelectSeq(oldNameToNewNameMap,
                          LAMBDA e : ~MapHas(existingFoldersMap, e[2])))
      fetched == fetchUnitsFromFolders(us, fs, folderNamesToUpdate0)
      unitsOf(folderName0) ==
        SelectSeq(fetched, LAMBDA u : folderName(fs, u.parent) = folderName0)
      throws == \E k \in 1..Len(folderNamesToUpdate0) :
                  \E j \in 1..Len(unitsOf(folderNamesToUpdate0[k])) :
                     unitsOf(folderNamesToUpdate0[k])[j].repository_path = null
      foldersWithMultipleTests ==
        SelectSeq(folderNamesToUpdate0,
                  LAMBDA n : unitsOf(n) # << >> /\ countDistinctTests(unitsOf(n)) > 1)
      folderNamesToUpdate ==
        SelectSeq(folderNamesToUpdate0, LAMBDA n : ~SeqHas(foldersWithMultipleTests, n))
      folders2update == fetchChildFolders(fs, folderNamesToUpdate)
      renamed == [k \in 1..Len(folders2update) |->
                    [ id |-> folders2update[k].id,
                      name |-> MapGet(oldNameToNewNameMap, folders2update[k].name) ]]
      foldersToCreate ==
        SetOf([k \in 1..Len(foldersWithMultipleTests) |->
                 MapGet(oldNameToNewNameMap, foldersWithMultipleTests[k])], << >>)
      created == createdFolders(foldersToCreate, firstId)
      none == [failed |-> FALSE, map |-> << >>, renamed |-> << >>, created |-> << >>]
  IN IF oldNameToNewNameMap = << >> THEN none
     ELSE IF folderNamesToUpdate0 = << >> THEN none
     ELSE IF throws THEN [none EXCEPT !.failed = TRUE]
     ELSE [ failed |-> FALSE,
            map |-> FoldSeq(LAMBDA m, f : MapSet(m, f.name, f), existingFoldersMap, created),
            renamed |-> renamed,
            created |-> created ]

\* dispatchUpdatedActions: the update bodies
unitsToUpdate(updatedActions, existingFoldersMap) ==
  [k \in 1..Len(updatedActions) |->
     buildUnit(updatedActions[k],
               IF ~Falsy(updatedActions[k].testName)
                    /\ MapHas(existingFoldersMap, updatedActions[k].testName)
                 THEN MapGet(existingFoldersMap, updatedActions[k].testName).id
                 ELSE 0)]

----------------------------------------------------------------------------
(* Inputs of the incremental sync: a discovery result and a remote state   *)

\* (package, name) of the test folders of the repository: T, T1 and p\T
Identities ==
  << [p |-> EMPTY, n |-> << "T" >>],
     [p |-> EMPTY, n |-> << "T", "1" >>],
     [p |-> << "p" >>, n |-> << "T" >>] >>

ActionName(k) == << "Action", ToString(k) >>

\* what the test document holds for action k: "no" (no such component), a
\* dependency node with logical name L, or a component without dependency
\* node (drawn for the first action only)
ActionGenes ==
  { g \in [1..MaxActions -> {"no", "L", "nodep"}] :
      \A k \in 2..MaxActions : g[k] # "nodep" }

\* the resource file of Action1 declares one parameter; the other actions
\* have no resource file
mtrOf(k) == IF k = 1 THEN << "a" >> ELSE undefined

\* Discovery.parseActionsAndParameters on a document described by g
parseActionsAndParameters(g, actionPathPrefix, testName) ==
  LET present == SelectSeq([k \in 1..MaxActions |-> k], LAMBDA k : g[k] # "no")
  IN [j \in 1..Len(present) |->
        readParameters(
          fillActionsLogicalName(
            parseActionComponents(ActionName(present[j]), testName),
            IF g[present[j]] = "L" THEN << "L" >> ELSE undefined,
            actionPathPrefix),
          mtrOf(present[j]))]

\* A path is the sequence of its segments. The working tree holds, for each
\* of its directories, the items readdir returns, in the order it returns
\* them, and the components of the GUI test documents.
workDir == << << "w" >> >>

basename(p) == p[Len(p)]

\* Discovery.getRelativePath
getRelativePath(subPath) == SubSeq(subPath, Len(workDir) + 1, Len(subPath))

\* path.extname: from the last dot of the name, empty when the name has no
\* dot or only a leading one
extname(file) ==
  IF Len(file) >= 3 /\ file[Len(file) - 1] = "."
    THEN << ".", file[Len(file)] >>
    ELSE EMPTY

folders2skip == { << ".", "git" >>, << ".", "github" >> }

\* Discovery.isDataTableFile
isDataTableFile(file) ==
  toLowerCase(extname(file)) \in { << ".", "xlsx" >>, << ".", "xls" >> }

\* Discovery.getTestType: decided by the first item with a test extension
getTestType(paths) ==
  LET hits == { i \in 1..Len(paths) :
                  toLowerCase(extname(paths[i])) \in { << ".", "st" >>, << ".", "tsp" >> } }
  IN IF hits = {} THEN "None"
     ELSE LET first == CHOOSE i \in hits : \A j \in hits : i <= j
          IN IF toLowerCase(extname(paths[first])) = << ".", "st" >> THEN "API" ELSE "GUI"

\* utils.getTestType, of the path of a file
getTestTypeOfFile(filePath) ==
  LET ext == toLowerCase(extname(basename(filePath)))
  IN IF ext = << ".", "st" >> THEN "API"
     ELSE IF ext = << ".", "tsp" >> THEN "GUI"
     ELSE "None"

\* utils.getParentFolderFullPath
getParentFolderFullPath(fullFilePath) == SubSeq(fullFilePath, 1, Len(fullFilePath) - 1)

\* path.join(workDir, relPath), for a repository path with "/" separators
joinWorkDir(relPath) == workDir \o split(relPath, "/")

\* Discovery.createScmResxFile
createScmResxFile(fullFilePath) ==
  [ name |-> fullFilePath, relativePath |-> getRelativePath(fullFilePath),
    octaneStatus |-> S_NEW ]

\* Discovery.createAutomatedTest: the package of the test in a directory
packageNameOf(subDirFullPath) ==
  LET segments == getRelativePath(subDirFullPath)
  IN IF Len(segments) > 1
       THEN FoldSeq(LAMBDA acc, seg : IF acc = EMPTY THEN seg ELSE acc \o Str(BS) \o seg,
                    EMPTY, SubSeq(segments, 1, Len(segments) - 1))
       ELSE EMPTY

\* Discovery.createAutomatedTestEx: actions are discovered only for the MBT
\* tool type and GUI tests
createAutomatedTestEx(packageName, testName, testType, g) ==
  LET test == createAutomatedTest(packageName, testName, testType)
  IN IF toolType = "mbt" /\ testType = "GUI"
       THEN [test EXCEPT !.actions =
               parseActionsAndParameters(g, TestPathPrefixOf(packageName, testName),
                                         testName)]
       ELSE test

\* Discovery.handleTestChanges on the instance's tests ts, for an affected
\* main file; fileExists tells whether the file is in the working tree and g
\* what its test document holds
handleTestChanges(ts, affFileWrapper, fileExists, g) ==
  LET affFileFullPath == joinWorkDir(affFileWrapper.newPath)
      testDirFullPath == getParentFolderFullPath(affFileFullPath)
      testType == getTestTypeOfFile(affFileFullPath)
      testName == basename(testDirFullPath)
      packageName == packageNameOf(testDirFullPath)
      test == IF fileExists
                THEN createAutomatedTestEx(packageName, testName, testType, g)
                ELSE createAutomatedTest(packageName, testName, testType)
      old == updateOldData(test, affFileWrapper.oldPath)
  IN CASE affFileWrapper.changeType = "ADD" ->
            IF fileExists THEN Append(ts, test) ELSE ts
       [] affFileWrapper.changeType = "DELETE" ->
            IF ~fileExists
              THEN Append(ts, [test EXCEPT !.executable = FALSE, !.octaneStatus = S_DELETED])
              ELSE ts
       [] affFileWrapper.changeType = "EDIT" ->
            IF fileExists
              THEN Append(ts, [old EXCEPT !.isMoved = isTestMoved(old),
                                          !.octaneStatus = S_MODIFIED])
              ELSE ts
       [] OTHER -> ts

\* the main file of the test of an identity, as git names it
mainFileOf(id) ==
  (IF id.p = EMPTY THEN EMPTY ELSE id.p \o << "/" >>) \o id.n \o << "/", "Test", ".", "tsp" >>

\* the entry ScmChangesWrapper returns for the main file of identity i: added,
\* deleted, or edited with its old path under identity j
affectedMainFile(changeType, i, j) ==
  [ newPath |-> mainFileOf(Identities[i]),
    oldPath |-> CASE changeType = "ADD" -> null
                  [] changeType = "DELETE" -> mainFileOf(Identities[i])
                  [] OTHER -> mainFileOf(Identities[j]),
    changeType |-> changeType ]

NoActions == [k \in 1..MaxActions |-> "no"]

\* per identity: no change, or one recorded change
TestGenes ==
  { [c |-> "none", j |-> 1, g |-> NoActions], [c |-> "DELETE", j |-> 1, g |-> NoActions] }
    \cup { [c |-> "ADD", j |-> 1, g |-> g] : g \in ActionGenes }
    \cup { [c |-> "EDIT", j |-> j, g |-> g] : j \in 1..Len(Identities), g \in ActionGenes }

\* ScmChangesWrapper pairs a deleted main file with one added main file: a
\* test moved from identity j leaves no other change recorded for j, and no
\* two tests are moved from the same identity
Pairable(h) ==
  \A i \in 1..Len(Identities) :
    (h[i].c = "EDIT" /\ h[i].j # i) =>
      /\ h[h[i].j].c = "none"
      /\ \A i2 \in 1..Len(Identities) :
            (i2 # i /\ h[i2].c = "EDIT") => h[i2].j # h[i].j

\* the tests of an incremental scan, sorted by (package, name)
DiscoveryResults ==
  { LET present == SelectSeq([i \in 1..Len(Identities) |-> i], LAMBDA i : f[i].c # "none")
        change(ts, i) == handleTestChanges(ts, affectedMainFile(f[i].c, i, f[i].j),
                                            f[i].c # "DELETE", f[i].g)
    IN FoldSeq(change, << >>, present)
    : f \in { h \in [1..Len(Identities) -> TestGenes] :
                /\ Cardinality({ i \in 1..Len(Identities) : h[i].c # "none" }) <= MaxTests
                /\ Pairable(h) } }

FolderNames == SetOf([i \in 1..Len(Identities) |-> Identities[i].n], << >>)

FolderId(name) == 10 + CHOOSE k \in 1..Len(FolderNames) : FolderNames[k] = name

\* the remote units that may exist, in the order of their ids: one per
\* (identity, action, logical name, runner)
UnitCands ==
  [c \in 1..(Len(Identities) * MaxActions * 4) |->
     [ i |-> ((c - 1) \div (MaxActions * 4)) + 1,
       k |-> (((c - 1) \div 4) % MaxActions) + 1,
       ln |-> IF ((c - 1) \div 2) % 2 = 0 THEN "L" ELSE "M",
       r |-> IF (c - 1) % 2 = 0 THEN "executor" ELSE "null" ]]

CandSeqs ==
  UNION { { [k \in 1..n |-> UnitCands[s[k]]] :
              s \in { t \in [1..n -> 1..Len(UnitCands)] :
                        \A a, b \in 1..n : a < b => t[a] < t[b] } }
          : n \in 0..MaxUnits }

remoteUnit(c, id) ==
  [ id |-> id, name |-> << c.ln >>,
    repository_path |-> TestPathPrefixOf(Identities[c.i].p, Identities[c.i].n)
                          \o Str(BS) \o ActionName(c.k) \o Str(COLON) \o << c.ln >>,
    test_runner |-> c.r, parent |-> FolderId(Identities[c.i].n),
    automation_status |-> "automated" ]

RemoteUnits == { [k \in 1..Len(s) |-> remoteUnit(s[k], k)] : s \in CandSeqs }

\* the folders of the units: each unit lies in the folder named after its test
foldersOf(us) ==
  LET names == SelectSeq(FolderNames,
                 LAMBDA n : \E k \in 1..Len(us) : us[k].parent = FolderId(n))
  IN [k \in 1..Len(names) |-> [id |-> FolderId(names[k]), name |-> names[k]]]

\* the state of the flows a run of the sync does not touch
NoScm == [oldTree |-> << >>, newTree |-> << >>, diffs |-> << >>, affectedFiles |-> << >>]
NoScan == [tree |-> << >>, tests |-> << >>, scmResxFiles |-> << >>, results |-> << >>]

Init ==
  /\ toolType = "mbt"
  /\ pc = "handleDeletedTests"
  /\ tests \in DiscoveryResults
  /\ isFullSync = FALSE
  /\ units \in RemoteUnits
  /\ folders = foldersOf(units)
  /\ params = << >>
  /\ nextId = 21
  /\ calls = << >>
  /\ foldersMap = << >>
  /\ scm = NoScm
  /\ scan = NoScan
  /\ NoAside

----------------------------------------------------------------------------
(* Steps of eventHandler.doTestSync: mbtPrepDiscoveryRes4Sync, then         *)
(* dispatchDiscoveryResults                                                *)

remote == << units, folders, params, nextId, calls, foldersMap >>

HandleDeletedTests ==
  /\ pc = "handleDeletedTests"
  /\ tests' = handleDeletedTests(tests, units)
  /\ pc' = "handleAddedTests"
  /\ UNCHANGED << isFullSync, remote, toolType, scm, scan, aside >>

HandleAddedTests ==
  /\ pc = "handleAddedTests"
  /\ tests' = handleAddedTests(tests, units)
  /\ pc' = "handleUpdatedTests"
  /\ UNCHANGED << isFullSync, remote, toolType, scm, scan, aside >>

HandleUpdatedTests ==
  /\ pc = "handleUpdatedTests"
  /\ LET r == handleUpdatedTests(tests, units)
     IN /\ tests' = r.tests
        /\ pc' = IF r.failed THEN "failed" ELSE "handleMovedTests"
  /\ UNCHANGED << isFullSync, remote, toolType, scm, scan, aside >>

HandleMovedTests ==
  /\ pc = "handleMovedTests"
  /\ tests' = handleMovedTests(tests, units)
  /\ pc' = "dispatchNewActions"
  /\ UNCHANGED << isFullSync, remote, toolType, scm, scan, aside >>

callIf(cond, c) == IF cond THEN << c >> ELSE << >>

dispatchOrderUpdatedFirst(phase) ==
  CASE phase = "dispatchNewActions" -> "dispatchUpdatedActions"
    [] phase = "dispatchUpdatedActions" -> "dispatchDeletedActions"
    [] OTHER -> "done"

\* dispatchDiscoveryResults: the phase it awaits after phase
dispatchOrder(phase) ==
  CASE phase = "dispatchNewActions" -> "dispatchDeletedActions"
    [] phase = "dispatchDeletedActions" -> "dispatchUpdatedActions"
    [] OTHER -> "done"

DispatchNewActions ==
  /\ pc = "dispatchNewActions"
  /\ LET newActions == actionsByStatus(tests, S_NEW)
         cpf == createParentFolders(folders, newActions, nextId)
         ubodies == unitsToAdd(newActions, cpf.map)
         newUnits == unitsCreated(ubodies, nextId + Len(cpf.created))
         newParams == paramsCreated(paramsToAdd(newActions, cpf.map), newUnits)
     IN /\ folders' = folders \o cpf.created
        /\ units' = units \o newUnits
        /\ params' = params \o newParams
        /\ nextId' = nextId + Len(cpf.created) + Len(newUnits)
        /\ calls' = calls
             \o callIf(cpf.created # << >>, Call("createFolders", S_NEW, cpf.created))
             \o callIf(ubodies # << >>, Call("createUnits", S_NEW, ubodies))
             \o callIf(newParams # << >>, Call("createParams", S_NEW, newParams))
  /\ pc' = dispatchOrder(pc)
  /\ UNCHANGED << tests, isFullSync, foldersMap, toolType, scm, scan, aside >>

DispatchDeletedActions ==
  /\ pc = "dispatchDeletedActions"
  /\ LET bodies == unitsToDelete(actionsByStatus(tests, S_DELETED))
     IN /\ units' = applyUnitUpdates(units, bodies)
        /\ calls' = calls \o callIf(bodies # << >>, Call("updateUnits", S_DELETED, bodies))
  /\ pc' = dispatchOrder(pc)
  /\ UNCHANGED << tests, isFullSync, folders, params, nextId, foldersMap,
                  toolType, scm, scan, aside >>

DispatchUpdatedActions ==
  /\ pc = "dispatchUpdatedActions"
  /\ LET updatedActions == actionsByStatus(tests, S_MODIFIED)
         upf == updateParentFolders(units, folders, updatedActions, nextId)
         bodies == unitsToUpdate(updatedActions, upf.map)
     IN IF upf.failed
          THEN /\ pc' = "failed"
               /\ UNCHANGED << units, folders, nextId, calls, foldersMap >>
          ELSE /\ pc' = dispatchOrder(pc)
               /\ folders' = applyFolderUpdates(folders, upf.renamed) \o upf.created
               /\ nextId' = nextId + Len(upf.created)
               /\ units' = applyUnitUpdates(units, bodies)
               /\ foldersMap' = upf.map
               /\ calls' = calls
                    \o callIf(upf.renamed # << >>,
                              Call("updateFolders", S_MODIFIED, upf.renamed))
                    \o callIf(upf.created # << >>,
                              Call("createFolders", S_MODIFIED, upf.created))
                    \o callIf(bodies # << >>, Call("updateUnits", S_MODIFIED, bodies))
  /\ UNCHANGED << tests, isFullSync, params, toolType, scm, scan, aside >>

Next ==
  \/ HandleDeletedTests
  \/ HandleAddedTests
  \/ HandleUpdatedTests
  \/ HandleMovedTests
  \/ DispatchNewActions
  \/ DispatchDeletedActions
  \/ DispatchUpdatedActions

Spec == Init /\ [][Next]_vars

----------------------------------------------------------------------------
(* Properties of the reconciler (mbtDiscoveryResultPreparer)                *)

Reconciled == pc \in {"dispatchNewActions", "dispatchDeletedActions",
                      "dispatchUpdatedActions", "done"}

AfterUpdatedTestsPass == pc \notin {"handleDeletedTests", "handleAddedTests",
                                    "handleUpdatedTests"}

\* C1: after the updated-tests pass every local action of an updated test
\* (a test with status MODIFIED) has a status that is NEW, MODIFIED or NONE;
\* none is left unset.
C1_UpdatedActionsHaveStatus ==
  AfterUpdatedTestsPass =>
    \A t \in 1..Len(tests) :
      tests[t].octaneStatus = S_MODIFIED =>
        \A a \in 1..Len(tests[t].actions) :
          IsLocal(tests[t].actions[a]) =>
            tests[t].actions[a].octaneStatus \in {S_NEW, S_MODIFIED, S_NONE}

\* the pass has just classified an updated test that has a new, an unchanged
\* or a renamed action
C1_Witness ==
  /\ pc = "handleMovedTests"
  /\ \E t \in 1..Len(tests) :
       /\ tests[t].octaneStatus = S_MODIFIED
       /\ ~tests[t].isMoved
       /\ \E a, b \in 1..Len(tests[t].actions) :
            /\ IsLocal(tests[t].actions[a]) /\ IsLocal(tests[t].actions[b])
            /\ tests[t].actions[a].octaneStatus = S_NONE
            /\ tests[t].actions[b].octaneStatus = S_MODIFIED

\* C9: from the end of reconciliation until dispatch, the action list of
\* every test with status DELETED holds only actions with status DELETED.
C9_DeletedTestsCarryOnlyMarkers ==
  Reconciled =>
    \A t \in 1..Len(tests) :
      tests[t].octaneStatus = S_DELETED =>
        \A a \in 1..Len(tests[t].actions) :
          tests[t].actions[a].octaneStatus = S_DELETED

MovedTest(t) == tests[t].octaneStatus = S_MODIFIED /\ tests[t].isMoved

LocalNames(t) ==
  { tests[t].actions[a].name :
      a \in { b \in 1..Len(tests[t].actions) : IsLocal(tests[t].actions[b]) } }

UnderOrigPrefix(u, t) ==
  u.repository_path # null
    /\ startsWith(u.repository_path, getTestPathPrefix(tests[t], TRUE))

\* bare action names of the remote units under the original prefix of test t
RemoteNames(t) ==
  { extractActionNameFromActionPath(units[k].repository_path) :
      k \in { j \in 1..Len(units) : UnderOrigPrefix(units[j], t) } }

\* ... leaving out the units an earlier moved test of the pass has taken
AttributedNames(t) ==
  { extractActionNameFromActionPath(units[k].repository_path) :
      k \in { j \in 1..Len(units) :
                /\ UnderOrigPrefix(units[j], t)
                /\ \A t2 \in 1..(t - 1) :
                     MovedTest(t2) => ~UnderOrigPrefix(units[j], t2) } }

AllMovedAndModified(t) ==
  /\ \A a \in 1..Len(tests[t].actions) : tests[t].actions[a].octaneStatus # S_DELETED
  /\ \A a \in 1..Len(tests[t].actions) :
       /\ tests[t].actions[a].octaneStatus = S_MODIFIED
       /\ tests[t].actions[a].moved
       /\ tests[t].actions[a].oldTestName = tests[t].oldName

\* C10 as stated: for a moved test all of whose local actions have a remote
\* counterpart by bare action name under the original path prefix, the
\* moved-tests pass adds no DELETED marker and leaves every action MODIFIED,
\* moved, with oldTestName the pre-move name.
C10_MovedTestAllMatched ==
  pc = "dispatchNewActions" =>
    \A t \in 1..Len(tests) :
      (MovedTest(t) /\ LocalNames(t) # {} /\ LocalNames(t) \subseteq RemoteNames(t))
        => AllMovedAndModified(t)

\* C10 amended: the same conclusion when, in addition, every remote unit the
\* pass attributes to the test has a local action of the same bare name.
C10_MovedTestMatchedBothWays ==
  pc = "dispatchNewActions" =>
    \A t \in 1..Len(tests) :
      (MovedTest(t) /\ LocalNames(t) = AttributedNames(t)) => AllMovedAndModified(t)

C10_Witness ==
  /\ pc = "dispatchNewActions"
  /\ \E t \in 1..Len(tests) :
       /\ MovedTest(t)
       /\ Cardinality(LocalNames(t)) = 2
       /\ LocalNames(t) = AttributedNames(t)
       /\ AllMovedAndModified(t)

UpdatedTest(t) == tests[t].octaneStatus = S_MODIFIED /\ ~tests[t].isMoved

\* the remote units whose normalized action path is that of the action
UnitsAtPathOf(action) ==
  { k \in 1..Len(units) :
      /\ units[k].repository_path # null
      /\ extractScmPathFromActionPath(units[k].repository_path)
           = extractScmPathFromActionPath(action.repositoryPath) }

SameLogicalName(action, unit) ==
  toLowerCase(extractActionLogicalNameFromActionPath(unit.repository_path))
    = toLowerCase(action.logicalName)

MarkersOf(t, k) ==
  { a \in 1..Len(tests[t].actions) :
      /\ ~IsLocal(tests[t].actions[a])
      /\ tests[t].actions[a].octaneStatus = S_DELETED
      /\ tests[t].actions[a].id = units[k].id }

\* unit k is fetched for updated test t and lies in the folder of t
FetchedUnder(k, t) ==
  /\ units[k].repository_path # null
  /\ startsWith(units[k].repository_path, getTestPathPrefix(tests[t], FALSE))
  /\ extractScmTestPath(units[k].repository_path)
       = toLowerCase(getTestPathPrefix(tests[t], FALSE))

\* no local action of an updated test has the normalized action path of unit k
MatchesNoLocalAction(k) ==
  \A t \in 1..Len(tests) : UpdatedTest(t) =>
    \A a \in 1..Len(tests[t].actions) :
      IsLocal(tests[t].actions[a]) =>
        extractScmPathFromActionPath(tests[t].actions[a].repositoryPath)
          # extractScmPathFromActionPath(units[k].repository_path)

\* C16: after the updated-tests pass, every remote unit fetched under the
\* path prefix of an updated test that is not moved, whose normalized action
\* path is that of no local action, has exactly one DELETED marker with its
\* id in the action list of that test, and none in the list of another test
\* of the pass.
C16_RemoteOnlyUnitGetsOneMarker ==
  pc = "handleMovedTests" =>
    \A t \in 1..Len(tests) : UpdatedTest(t) =>
      \A k \in 1..Len(units) :
        (FetchedUnder(k, t) /\ MatchesNoLocalAction(k)) =>
          /\ Cardinality(MarkersOf(t, k)) = 1
          /\ \A t2 \in 1..Len(tests) :
               (t2 # t /\ tests[t2].octaneStatus # S_DELETED) => MarkersOf(t2, k) = {}

\* the remote units whose repository path is that of the action
UnitsWithPathOf(action) ==
  { k \in 1..Len(units) :
      units[k].repository_path # null
        /\ units[k].repository_path = action.repositoryPath }

\* the actions of the list that have the name of the action
NamedLike(actions, action) ==
  { b \in 1..Len(actions) : actions[b].name = action.name }

\* what the added-tests pass makes of one action of a new test: after is the
\* action list of the test when the pass is over
AddedActionOutcome(action, after) ==
  IF UnitsWithPathOf(action) = {}
  THEN \E b \in NamedLike(after, action) : after[b] = action /\ after[b].octaneStatus = S_NEW
  ELSE \/ /\ NamedLike(after, action) = {}
          /\ \E k \in UnitsWithPathOf(action) : units[k].test_runner # "null"
       \/ /\ Cardinality(NamedLike(after, action)) = 1
          /\ \E b \in NamedLike(after, action), k \in UnitsWithPathOf(action) :
               /\ units[k].test_runner = "null"
               /\ after[b] = [action EXCEPT !.octaneStatus = S_MODIFIED, !.id = units[k].id]

DeletedTest(t) == tests[t].octaneStatus = S_DELETED

\* unit k is returned by the prefix query of the deleted-tests pass
ReturnedForDeleted(k) ==
  /\ units[k].repository_path # null
  /\ \E t \in 1..Len(tests) :
       DeletedTest(t) /\ startsWith(units[k].repository_path, getTestPathPrefix(tests[t], FALSE))

\* the folder <package>\<test> of test t holds unit k
FolderHolds(t, k) ==
  startsWith(units[k].repository_path, getTestPathPrefix(tests[t], FALSE) \o Str(BS))

\* C20: after the deleted-tests pass every remote unit the prefix query
\* returned is a DELETED marker of exactly one deleted test, the one whose
\* folder holds the unit, also when the path of one deleted test is a prefix
\* of the path of another, and in whatever order the units came.
C20_UnitMarksTheTestOfItsFolder ==
  pc = "handleAddedTests" =>
    \A k \in 1..Len(units) : ReturnedForDeleted(k) =>
      \E t \in 1..Len(tests) :
        /\ DeletedTest(t)
        /\ FolderHolds(t, k)
        /\ Cardinality(MarkersOf(t, k)) = 1
        /\ \A t2 \in 1..Len(tests) : (t2 # t /\ DeletedTest(t2)) => MarkersOf(t2, k) = {}

----------------------------------------------------------------------------
(* Properties of the dispatcher (mbtDiscoveryResultDispatcher)              *)

\* the new test names of the moved actions whose old test name is name
MovedTo(name) ==
  LET updatedActions == actionsByStatus(tests, S_MODIFIED)
  IN { updatedActions[k].testName :
         k \in { j \in 1..Len(updatedActions) :
                   /\ updatedActions[j].moved
                   /\ ~Falsy(updatedActions[j].testName)
                   /\ updatedActions[j].oldTestName = name
                   /\ updatedActions[j].testName # name } }

\* the folder holds units of two or more distinct tests
Mixed(f) ==
  Cardinality({ extractScmTestPath(units[k].repository_path) :
                  k \in { j \in 1..Len(units) :
                            units[j].parent = f.id /\ units[j].repository_path # null } })
    >= 2

FolderNamed(fs, n) == \E k \in 1..Len(fs) : fs[k].name = n

UpdatedDispatched == pc = "dispatchUpdatedActions" /\ pc' = "done"

\* C2 as stated: when moved actions are dispatched, a folder holding units of
\* two or more distinct tests is not renamed; a folder with the new test name
\* is created, and the folder map returned holds both the old and the new
\* name, mapped to distinct folder ids.
C2_MixedFolderBothNamesMapped ==
  [][ UpdatedDispatched =>
        \A k \in 1..Len(folders) :
          Mixed(folders[k]) =>
            \A n \in MovedTo(folders[k].name) :
              /\ folders'[k] = folders[k]
              /\ \E g \in (Len(folders) + 1)..Len(folders') : folders'[g].name = n
              /\ MapHas(foldersMap', folders[k].name)
              /\ MapHas(foldersMap', n)
              /\ MapGet(foldersMap', folders[k].name).id # MapGet(foldersMap', n).id
    ]_vars

\* C2 amended: such a folder is not renamed; when no folder of the new name
\* exists yet, one is created and the folder map returned holds the new name,
\* mapped to the created folder, whose id differs from the old folder's id.
C2_MixedFolderNotRenamed ==
  [][ UpdatedDispatched =>
        \A k \in 1..Len(folders) :
          Mixed(folders[k]) =>
            \A n \in MovedTo(folders[k].name) :
              /\ folders'[k] = folders[k]
              /\ ~FolderNamed(folders, n) =>
                   \E g \in (Len(folders) + 1)..Len(folders') :
                     /\ folders'[g].name = n
                     /\ folders'[g].id # folders[k].id
                     /\ MapHas(foldersMap', n)
                     /\ MapGet(foldersMap', n) = folders'[g]
    ]_vars

\* a dispatch that created a folder for moved actions, the old one being kept
C2_Witness ==
  /\ pc = "done"
  /\ \E c \in 1..Len(calls) :
       calls[c].op = "createFolders" /\ calls[c].phase = S_MODIFIED
  /\ \E k \in 1..Len(folders) :
       \E n \in MovedTo(folders[k].name) :
         MapHas(foldersMap, n) /\ MapGet(foldersMap, n).id # folders[k].id

PhaseRank(phase) ==
  CASE phase = S_NEW -> 1 [] phase = S_DELETED -> 2 [] phase = S_MODIFIED -> 3

\* C4: within one dispatch the remote writes for NEW actions all precede the
\* writes for DELETED actions, which all precede the writes for MODIFIED
\* actions.
C4_WritesInPhaseOrder ==
  \A i, j \in 1..Len(calls) :
    i < j => PhaseRank(calls[i].phase) <= PhaseRank(calls[j].phase)

C4_Witness ==
  /\ pc = "done"
  /\ \A phase \in {S_NEW, S_DELETED, S_MODIFIED} :
       \E c \in 1..Len(calls) : calls[c].phase = phase

----------------------------------------------------------------------------
(* ScmChangesWrapper: the diff between two commits                          *)

MaxBlobs == 3

\* A file path: its directory and the tokens of its base name.
Path(dir, base) == [dir |-> dir, base |-> base]

DevNull == Path("dev", << "null" >>)
nullPath == Path("null", << >>)

\* the files a commit may hold, in the order git.walk visits them
ScmPaths ==
  << Path("T/Action1", << "Resource", ".", "MTR" >>),
     Path("T", << "Default", ".", "xlsx" >>),
     Path("T", << "Test", ".", "tsp" >>),
     Path("T1", << "Test", ".", "tsp" >>) >>

\* A commit's tree: for each path the blob it holds, 0 when the file is absent.
Trees == [1..Len(ScmPaths) -> 0..MaxBlobs]

\* the object id of a blob, and the commit ids git.resolveRef returns
Oid(blob) == IF blob = 0 THEN "null" ELSE ToString(blob)
resolveRef(commit) == commit

\* the lines of blob b, each ended by a newline: blob b holds the lines 1..b
BlobLines(blob) == [i \in 1..blob |-> i]

\* getDiffEntries: allowedExtensions = /\.(tsp|st)$/i
allowedExtensions(filename) ==
  /\ Len(filename) >= 2
  /\ filename[Len(filename) - 1] = "."
  /\ Lower(filename[Len(filename)]) \in {"tsp", "st"}

\* getDiffEntries: allowedFilenames = /^(ACTIONS\.XML|Resource\.MTR)$/i
allowedFilenames(filename) ==
  toLowerCase(filename) \in { << "actions", ".", "xml" >>, << "resource", ".", "mtr" >> }

\* getDiffEntries, matchesFilter
matchesFilter(entry) ==
  LET relevantPath == IF entry.from # DevNull /\ entry.to = DevNull
                        THEN entry.from ELSE entry.to
  IN allowedExtensions(relevantPath.base) \/ allowedFilenames(relevantPath.base)

\* getDiffEntries, the map callback of git.walk for the file at position p
walkEntry(p, oldTree, newTree) ==
  [ from |-> IF oldTree[p] # 0 THEN ScmPaths[p] ELSE DevNull,
    to |-> IF newTree[p] # 0 THEN ScmPaths[p] ELSE DevNull,
    fromId |-> Oid(oldTree[p]), toId |-> Oid(newTree[p]), op |-> "none" ]

\* the entries the walk keeps: changed, present on a side, passing the filter
walkResults(oldTree, newTree) ==
  LET all == [p \in 1..Len(ScmPaths) |-> walkEntry(p, oldTree, newTree)]
  IN SelectSeq(all, LAMBDA e :
       /\ ~(e.fromId = e.toId /\ e.fromId # "null")
       /\ ~(e.from = DevNull /\ e.to = DevNull)
       /\ matchesFilter(e))

findAddOfSamePath(adds, del, usedAdds) ==
  IF \E i \in 1..Len(adds) : adds[i].to = del.from /\ i \notin usedAdds
    THEN CHOOSE i \in 1..Len(adds) :
           /\ adds[i].to = del.from /\ i \notin usedAdds
           /\ \A j \in 1..(i - 1) : ~(adds[j].to = del.from /\ j \notin usedAdds)
    ELSE 0

\* adds.find(add => add.toId === del.fromId && !usedAdds.has(add)): the
\* position of the add found, 0 when there is none
findMatchingAdd(adds, del, usedAdds) ==
  IF \E i \in 1..Len(adds) : adds[i].toId = del.fromId /\ i \notin usedAdds
    THEN CHOOSE i \in 1..Len(adds) :
           /\ adds[i].toId = del.fromId /\ i \notin usedAdds
           /\ \A j \in 1..(i - 1) : ~(adds[j].toId = del.fromId /\ j \notin usedAdds)
    ELSE 0

\* getDiffEntries, "Process renames": [final, used]
RECURSIVE processRenames(_, _, _, _)
processRenames(deletes, adds, usedAdds, final) ==
  IF deletes = << >> THEN [final |-> final, used |-> usedAdds]
  ELSE LET del == Head(deletes)
           m == findMatchingAdd(adds, del, usedAdds)
       IN IF m # 0
            THEN processRenames(Tail(deletes), adds, usedAdds \cup {m},
                   Append(final, [ from |-> del.from, to |-> adds[m].to,
                                   fromId |-> del.fromId, toId |-> adds[m].toId,
                                   op |-> "RENAME" ]))
            ELSE processRenames(Tail(deletes), adds, usedAdds,
                   Append(final, [del EXCEPT !.op = "DEL"]))

\* getDiffEntries
getDiffEntries(oldTree, newTree) ==
  LET results == walkResults(oldTree, newTree)
      deletes == SelectSeq(results, LAMBDA e : e.from # DevNull /\ e.to = DevNull)
      adds == SelectSeq(results, LAMBDA e : e.from = DevNull /\ e.to # DevNull)
      others == SelectSeq(results, LAMBDA e : e.from # DevNull /\ e.to # DevNull)
      r == processRenames(deletes, adds, {}, << >>)
      restAdds == SelectSeq([i \in 1..Len(adds) |-> i], LAMBDA i : i \notin r.used)
  IN r.final
       \o [k \in 1..Len(restAdds) |-> [adds[restAdds[k]] EXCEPT !.op = "ADD"]]
       \o [k \in 1..Len(others) |-> [others[k] EXCEPT !.op = "MODIFY"]]

\* length of the longest common subsequence of two line lists
RECURSIVE lcs(_, _)
lcs(a, b) ==
  IF a = << >> \/ b = << >> THEN 0
  ELSE IF Head(a) = Head(b) THEN 1 + lcs(Tail(a), Tail(b))
  ELSE LET x == lcs(Tail(a), b)
           y == lcs(a, Tail(b))
       IN IF x >= y THEN x ELSE y

\* calculateSimilarity: the unchanged lines and the lines of all diff parts
calculateSimilarity(oldLines, newLines) ==
  LET unchanged == lcs(oldLines, newLines)
  IN [ unchangedLines |-> unchanged,
       totalLines |-> unchanged + (Len(oldLines) - unchanged)
                                + (Len(newLines) - unchanged) ]

aboveRenameThreshold(similarity) ==
  similarity.totalLines > 0 /\ 2 * similarity.unchangedLines > similarity.totalLines

\* wrapScmChanges: similarity >= renameThreshold, the threshold being 0.5
\* (similarity is 0 when there are no lines)
atLeastRenameThreshold(similarity) ==
  similarity.totalLines > 0 /\ 2 * similarity.unchangedLines >= similarity.totalLines

\* wrapScmChanges, the entry pushed for one diff entry
wrapScmChange(diff, oldTree, newTree, oldCommit, newCommit) ==
  LET p == CHOOSE q \in 1..Len(ScmPaths) : ScmPaths[q] = diff.to
      similarity == calculateSimilarity(BlobLines(oldTree[p]), BlobLines(newTree[p]))
  IN CASE diff.op = "ADD" ->
            [ newPath |-> diff.to, oldPath |-> nullPath, changeType |-> "ADD",
              oldId |-> "", newId |-> diff.toId ]
       [] diff.op = "DEL" ->
            [ newPath |-> diff.from, oldPath |-> diff.from, changeType |-> "DELETE",
              oldId |-> diff.fromId, newId |-> "" ]
       [] diff.op = "RENAME" ->
            [ newPath |-> diff.to, oldPath |-> diff.from, changeType |-> "EDIT",
              oldId |-> resolveRef(oldCommit), newId |-> resolveRef(newCommit) ]
       [] OTHER ->
            IF atLeastRenameThreshold(similarity)
              THEN [ newPath |-> diff.to, oldPath |-> diff.from, changeType |-> "EDIT",
                     oldId |-> resolveRef(oldCommit), newId |-> resolveRef(newCommit) ]
              ELSE [ newPath |-> diff.to, oldPath |-> diff.from, changeType |-> "EDIT",
                     oldId |-> diff.toId, newId |-> diff.toId ]

NoSync ==
  /\ tests = << >> /\ isFullSync = FALSE /\ units = << >> /\ folders = << >>
  /\ params = << >> /\ nextId = 21 /\ calls = << >> /\ foldersMap = << >>

sync == << tests, isFullSync, units, folders, params, nextId, calls, foldersMap >>

InitScm ==
  /\ pc = "getDiffEntries"
  /\ NoSync
  /\ toolType \in {"uft", "mbt"}
  /\ \E oldTree \in Trees, newTree \in Trees :
       scm = [NoScm EXCEPT !.oldTree = oldTree, !.newTree = newTree]
  /\ scan = NoScan
  /\ NoAside

GetDiffEntries ==
  /\ pc = "getDiffEntries"
  /\ scm' = [scm EXCEPT !.diffs = getDiffEntries(scm.oldTree, scm.newTree)]
  /\ pc' = "wrapScmChanges"
  /\ UNCHANGED << sync, toolType, scan, aside >>

WrapScmChanges ==
  /\ pc = "wrapScmChanges"
  /\ scm' = [scm EXCEPT !.affectedFiles =
               [k \in 1..Len(scm.diffs) |->
                  wrapScmChange(scm.diffs[k], scm.oldTree, scm.newTree, "old", "new")]]
  /\ pc' = "returned"
  /\ UNCHANGED << sync, toolType, scan, aside >>

NextScm == GetDiffEntries \/ WrapScmChanges

SpecScm == InitScm /\ [][NextScm]_vars

----------------------------------------------------------------------------
(* Properties of ScmChangesWrapper                                          *)

Deleted(p) == scm.oldTree[p] # 0 /\ scm.newTree[p] = 0
Added(p) == scm.oldTree[p] = 0 /\ scm.newTree[p] # 0
Modified(p) == scm.oldTree[p] # 0 /\ scm.newTree[p] # 0 /\ scm.oldTree[p] # scm.newTree[p]

\* the file passes the file filter of the diff
Kept(p) == allowedExtensions(ScmPaths[p].base) \/ allowedFilenames(ScmPaths[p].base)

\* d is a deleted file and a an added file of the diff with the content of d,
\* and no other added or deleted file of the diff has that content
UniquePair(d, a) ==
  /\ Deleted(d) /\ Kept(d) /\ Added(a) /\ Kept(a)
  /\ scm.oldTree[d] = scm.newTree[a]
  /\ \A a2 \in 1..Len(ScmPaths) :
       (a2 # a /\ Added(a2) /\ Kept(a2)) => scm.newTree[a2] # scm.oldTree[d]
  /\ \A d2 \in 1..Len(ScmPaths) :
       (d2 # d /\ Deleted(d2) /\ Kept(d2)) => scm.oldTree[d2] # scm.newTree[a]

\* C5: for a deleted and an added file of the diff whose content hashes are
\* equal, the pairing being unique, the diff holds one RENAME entry from the
\* deleted to the added path and the result one entry with the deleted path
\* as old path and the added path as new path; the result holds no ADD entry
\* for the added path and no DELETE entry for the deleted path.
C5_UniquePairIsRename ==
  pc = "returned" =>
    \A d, a \in 1..Len(ScmPaths) :
      UniquePair(d, a) =>
        /\ Cardinality({ k \in 1..Len(scm.diffs) :
              /\ scm.diffs[k].op = "RENAME"
              /\ scm.diffs[k].from = ScmPaths[d]
              /\ scm.diffs[k].to = ScmPaths[a] }) = 1
        /\ Cardinality({ k \in 1..Len(scm.affectedFiles) :
              /\ scm.affectedFiles[k].oldPath = ScmPaths[d]
              /\ scm.affectedFiles[k].newPath = ScmPaths[a] }) = 1
        /\ \A k \in 1..Len(scm.affectedFiles) :
             /\ ~(scm.affectedFiles[k].changeType = "ADD"
                   /\ scm.affectedFiles[k].newPath = ScmPaths[a])
             /\ ~(scm.affectedFiles[k].changeType = "DELETE"
                   /\ scm.affectedFiles[k].newPath = ScmPaths[d])

C5_Witness ==
  /\ pc = "returned"
  /\ \E d, a \in 1..Len(ScmPaths) : UniquePair(d, a)
  /\ \E k \in 1..Len(scm.diffs) : scm.diffs[k].op = "RENAME"

\* the allow-list of a tool type: test main files for both; spreadsheets and
\* the actions manifest for UFT; the per-action resource file for MBT
AllowedFor(tool, filename) ==
  \/ /\ Len(filename) >= 2
     /\ filename[Len(filename) - 1] = "."
     /\ Lower(filename[Len(filename)]) \in
          (IF tool = "uft" THEN {"tsp", "st", "xlsx", "xls"} ELSE {"tsp", "st"})
  \/ toLowerCase(filename) =
       (IF tool = "uft" THEN << "actions", ".", "xml" >> ELSE << "resource", ".", "mtr" >>)

\* C6: every entry the wrapper returns names a file of the allow-list of the
\* configured tool type.
C6_ResultWithinToolAllowList ==
  pc = "returned" =>
    \A k \in 1..Len(scm.affectedFiles) :
      AllowedFor(toolType, scm.affectedFiles[k].newPath.base)

----------------------------------------------------------------------------
(* Discovery: the full scan of the working tree                            *)

\* the number of scans of one working tree
MaxScans == 2

RECURSIVE scanDirRecursively(_, _, _)
\* Discovery.scanDirRecursively on the instance d
scanDirRecursively(tree, d, subDirFullPath) ==
  IF basename(subDirFullPath) \in folders2skip THEN d
  ELSE
    LET items == tree.dirs[subDirFullPath]
        testType == getTestType(items)
        visit(acc, item) ==
          LET fullPath == Append(subDirFullPath, item)
          IN IF fullPath \in DOMAIN tree.dirs
               THEN scanDirRecursively(tree, acc, fullPath)
               ELSE IF isDataTableFile(item)
                 THEN [acc EXCEPT !.scmResxFiles = Append(@, createScmResxFile(fullPath))]
                 ELSE acc
    IN IF testType = "None" THEN FoldSeq(visit, d, items)
       ELSE IF ~(toolType = "mbt" /\ testType = "API")
         THEN [d EXCEPT !.tests =
                 Append(@, createAutomatedTestEx(packageNameOf(subDirFullPath),
                                                 basename(subDirFullPath), testType,
                                                 tree.doc))]
         ELSE d

\* Discovery.doFullDiscovery
doFullDiscovery(tree, d) == scanDirRecursively(tree, d, workDir)

newDiscoveryKeepingCollections(d) == d

\* new Discovery(workDir): the instance starts with empty collections
newDiscovery(d) == [d EXCEPT !.tests = << >>, !.scmResxFiles = << >>]

\* DiscoveryResult
DiscoveryResult(ts, scmResxFiles, fullSync) ==
  [ tests |-> ts, scmResxFiles |-> scmResxFiles, isFullSync |-> fullSync ]

\* what a directory of the working tree holds
DirKinds == {"absent", "gui", "api", "stFirst", "tspFirst", "plain"}

listingOf(kind) ==
  CASE kind = "gui" -> << << "Default", ".", "xlsx" >>, << "Test", ".", "tsp" >> >>
    [] kind = "api" -> << << "Test", ".", "st" >> >>
    [] kind = "stFirst" -> << << "Test", ".", "st" >>, << "Test", ".", "tsp" >> >>
    [] kind = "tspFirst" -> << << "Test", ".", "tsp" >>, << "Test", ".", "st" >> >>
    [] kind = "plain" -> << << "Default", ".", "xlsx" >> >>
    [] OTHER -> << >>

Reverse(s) == [i \in 1..Len(s) |-> s[Len(s) + 1 - i]]

\* the working trees: an optional .git folder holding a spreadsheet, an
\* optional directory T, an optional spreadsheet d.xls, an optional directory
\* p holding a directory T and a spreadsheet; readdir lists the root in this
\* order or reversed
TreeGenes ==
  [ git : BOOLEAN, xls : BOOLEAN, t : DirKinds, pt : {"absent", "gui", "plain"},
    rev : BOOLEAN, doc : ActionGenes ]

workTree(g) ==
  LET root == (IF g.git THEN << << ".", "git" >> >> ELSE << >>)
                \o (IF g.t # "absent" THEN << << "T" >> >> ELSE << >>)
                \o (IF g.xls THEN << << "d", ".", "xls" >> >> ELSE << >>)
                \o (IF g.pt # "absent" THEN << << "p" >> >> ELSE << >>)
      dirs == { workDir }
                \cup (IF g.git THEN { Append(workDir, << ".", "git" >>) } ELSE {})
                \cup (IF g.t # "absent" THEN { Append(workDir, << "T" >>) } ELSE {})
                \cup (IF g.pt # "absent"
                        THEN { Append(workDir, << "p" >>),
                               Append(Append(workDir, << "p" >>), << "T" >>) }
                        ELSE {})
  IN [ dirs |-> [ p \in dirs |->
                    CASE p = workDir -> IF g.rev THEN Reverse(root) ELSE root
                      [] p = Append(workDir, << ".", "git" >>) -> listingOf("plain")
                      [] p = Append(workDir, << "T" >>) -> listingOf(g.t)
                      [] p = Append(workDir, << "p" >>) ->
                           << << "T" >>, << "Default", ".", "xlsx" >> >>
                      [] OTHER -> listingOf(g.pt) ],
       doc |-> g.doc ]

WorkTrees == { workTree(g) : g \in TreeGenes }

InitScan ==
  /\ pc = "new Discovery"
  /\ NoSync
  /\ toolType \in {"uft", "mbt"}
  /\ scm = NoScm
  /\ \E tree \in WorkTrees : scan = [NoScan EXCEPT !.tree = tree]
  /\ NoAside

\* eventHandler: const discovery = new Discovery(workDir)
NewDiscovery ==
  /\ pc = "new Discovery"
  /\ scan' = newDiscovery(scan)
  /\ pc' = "startScanning"
  /\ UNCHANGED << sync, toolType, scm, aside >>

\* Discovery.startScanning, when it runs the full discovery
StartScanning ==
  /\ pc = "startScanning"
  /\ \E didFullCheckout \in BOOLEAN, oldCommit \in { EMPTY, << "c" >> } :
       /\ didFullCheckout \/ Falsy(oldCommit)
       /\ LET d == doFullDiscovery(scan.tree, scan)
          IN scan' = [d EXCEPT !.results =
                        Append(@, DiscoveryResult(d.tests, d.scmResxFiles, TRUE))]
  /\ pc' = IF Len(scan.results) + 1 < MaxScans THEN "new Discovery" ELSE "done"
  /\ UNCHANGED << sync, toolType, scm, aside >>

NextScan == NewDiscovery \/ StartScanning

SpecScan == InitScan /\ [][NextScan]_vars

----------------------------------------------------------------------------
(* Discovery: the incremental scan of the affected files                   *)

\* the number of affected files of one diff
MaxEntries == 2

\* path.join of segments, with the separator of the runner
joinPath(segments) ==
  FoldSeq(LAMBDA acc, seg : IF acc = EMPTY THEN seg ELSE acc \o Str(BS) \o seg,
          EMPTY, segments)

\* path.dirname of a relative path
dirname(segments) ==
  IF Len(segments) <= 1 THEN << "." >> ELSE joinPath(SubSeq(segments, 1, Len(segments) - 1))

\* String.prototype.includes
includes(s, sub) == indexOfString(s, sub) # 0

\* the position of a character in the collation order of localeCompare
collationRank(c) ==
  CASE c = BS -> 1 [] c = "." -> 2 [] c = "1" -> 3 [] c = "d" -> 4
    [] c = "Default" -> 5 [] c = "p" -> 6 [] c = "T" -> 7 [] c = "xls" -> 8
    [] c = "xlsx" -> 9 [] OTHER -> 10

\* String.prototype.localeCompare: negative, zero or positive
RECURSIVE localeCompare(_, _)
localeCompare(a, b) ==
  IF a = EMPTY /\ b = EMPTY THEN 0
  ELSE IF a = EMPTY THEN -1
  ELSE IF b = EMPTY THEN 1
  ELSE IF collationRank(Head(a)) < collationRank(Head(b)) THEN -1
  ELSE IF collationRank(Head(a)) > collationRank(Head(b)) THEN 1
  ELSE localeCompare(Tail(a), Tail(b))

\* Array.prototype.sort, which is stable, with the comparison cmp
sort(arr, cmp(_, _)) ==
  LET insert(acc, x) ==
        LET later == { i \in 1..Len(acc) : cmp(acc[i], x) > 0 }
            at == IF later = {} THEN Len(acc) + 1
                  ELSE CHOOSE i \in later : \A j \in later : i <= j
        IN SubSeq(acc, 1, at - 1) \o << x >> \o SubSeq(acc, at, Len(acc))
  IN FoldSeq(insert, << >>, arr)

\* Discovery.sortTests
sortTests(ts) ==
  sort(ts, LAMBDA o1, o2 :
             IF localeCompare(o1.packageName, o2.packageName) = 0
               THEN localeCompare(o1.name, o2.name)
               ELSE localeCompare(o1.packageName, o2.packageName))

\* Discovery.sortDataTables
sortDataTables(files) ==
  sort(files, LAMBDA a, b : localeCompare(joinPath(a.relativePath), joinPath(b.relativePath)))

\* Discovery.removeTestDuplicatedForUpdateTests: of the updated tests with
\* one (package, name) all but the first are removed
removeTestDuplicatedForUpdateTests(ts) ==
  LET key(t) == t.packageName \o << "_" >> \o t.name
      toRemove == { i \in 1..Len(ts) :
                      /\ ts[i].octaneStatus = S_MODIFIED
                      /\ \E j \in 1..(i - 1) :
                           ts[j].octaneStatus = S_MODIFIED /\ key(ts[j]) = key(ts[i]) }
      kept == SelectSeq([i \in 1..Len(ts) |-> i], LAMBDA i : i \notin toRemove)
  IN [k \in 1..Len(kept) |-> ts[kept[k]]]

\* Discovery.removeFalsePositiveDataTables
removeFalsePositiveDataTables(all, ts, scmResxFiles) ==
  IF ts = << >> \/ scmResxFiles = << >> THEN all
  ELSE
    LET testPaths == { IF isBlank(ts[i].packageName) THEN ts[i].name
                       ELSE ts[i].packageName \o Str(BS) \o ts[i].name : i \in 1..Len(ts) }
    IN SelectSeq(all, LAMBDA file :
         ~\E testPath \in testPaths : includes(dirname(file.relativePath), testPath))

\* utils.isTestMainFile
isTestMainFile(file) ==
  toLowerCase(extname(basename(file))) \in { << ".", "tsp" >>, << ".", "st" >> }

\* Discovery.isUftoActionFile
isUftoActionFile(filePath) ==
  toLowerCase(basename(filePath)) = << "resource", ".", "mtr" >>

\* the files of the repository an affected file may name
SyncFiles ==
  << << "T", "/", "Test", ".", "tsp" >>,
     << "T", "1", "/", "Test", ".", "tsp" >>,
     << "p", "/", "T", "/", "Test", ".", "tsp" >>,
     << "T", "T", "/", "T", "/", "Test", ".", "tsp" >>,
     << "T", "/", "Default", ".", "xlsx" >>,
     << "d", ".", "xls" >>,
     << "T", "1", "/", "d", ".", "xls" >>,
     << "T", "/", "Action", "1", "/", "Resource", ".", "MTR" >> >>

\* fs.promises.readdir: the files of a directory that are in the working
\* tree; the directories of SyncFiles all exist
readdir(disk, dirFullPath) ==
  LET here == SelectSeq(SyncFiles, LAMBDA f :
                f \in disk /\ getParentFolderFullPath(joinWorkDir(f)) = dirFullPath)
  IN [k \in 1..Len(here) |-> basename(joinWorkDir(here[k]))]

\* Discovery.handleDataTableChanges on the instance d
handleDataTableChanges(d, affFileWrapper, disk) ==
  LET affFileFullPath == joinWorkDir(affFileWrapper.newPath)
      resxFile == createScmResxFile(affFileFullPath)
      fileExists == affFileWrapper.newPath \in disk
      testType == getTestType(readdir(disk, getParentFolderFullPath(affFileFullPath)))
  IN CASE affFileWrapper.changeType = "ADD" ->
            IF testType = "None" /\ fileExists
              THEN [d EXCEPT !.scmResxFiles = Append(@, resxFile)]
              ELSE d
       [] affFileWrapper.changeType = "DELETE" ->
            IF ~fileExists
              THEN [d EXCEPT !.scmResxFiles =
                      Append(@, [resxFile EXCEPT !.octaneStatus = S_DELETED])]
              ELSE d
       [] OTHER -> d

\* Discovery.doChangeSetDetection on the instance d
doChangeSetDetection(d, affectedFiles, disk, doc) ==
  LET detect(acc, affectedFileWrapper) ==
        LET affectedFileFullPath == joinWorkDir(affectedFileWrapper.newPath)
        IN IF isTestMainFile(affectedFileFullPath)
             THEN [acc EXCEPT !.tests =
                     handleTestChanges(@, affectedFileWrapper,
                                       affectedFileWrapper.newPath \in disk, doc)]
             ELSE IF toolType = "uft" /\ isDataTableFile(basename(affectedFileFullPath))
               THEN handleDataTableChanges(acc, affectedFileWrapper, disk)
               ELSE acc
  IN FoldSeq(detect, d, affectedFiles)

\* Discovery.getTestsByOctaneStatus / getResxFilesByOctaneStatus
byOctaneStatus(items, status) == SelectSeq(items, LAMBDA x : x.octaneStatus = status)

\* Discovery.doSyncDiscovery on the instance d
doSyncDiscovery(d, affectedFiles, disk, doc) ==
  LET d1 == doChangeSetDetection(d, affectedFiles, disk, doc)
      d2 == [d1 EXCEPT !.tests = removeTestDuplicatedForUpdateTests(@)]
      d3 == [d2 EXCEPT !.scmResxFiles =
               removeFalsePositiveDataTables(@, byOctaneStatus(d2.tests, S_DELETED),
                                             byOctaneStatus(@, S_DELETED))]
      d4 == [d3 EXCEPT !.scmResxFiles =
               removeFalsePositiveDataTables(@, byOctaneStatus(d3.tests, S_NEW),
                                             byOctaneStatus(@, S_NEW))]
  IN [d4 EXCEPT !.tests = sortTests(@), !.scmResxFiles = sortDataTables(@)]

\* the entries ScmChangesWrapper may return: a main file added, deleted, or
\* edited with a main file as old path; a spreadsheet added or deleted; the
\* resource file of an action edited
AffectedEntries ==
  LET mainFiles == { f \in { SyncFiles[k] : k \in 1..Len(SyncFiles) } :
                       isTestMainFile(joinWorkDir(f)) }
      dataTables == { f \in { SyncFiles[k] : k \in 1..Len(SyncFiles) } :
                        isDataTableFile(basename(joinWorkDir(f))) }
      actionFiles == { f \in { SyncFiles[k] : k \in 1..Len(SyncFiles) } :
                         isUftoActionFile(joinWorkDir(f)) }
  IN { [newPath |-> f, oldPath |-> null, changeType |-> "ADD"] : f \in mainFiles \cup dataTables }
       \cup { [newPath |-> f, oldPath |-> f, changeType |-> "DELETE"] :
                f \in mainFiles \cup dataTables }
       \cup { [newPath |-> f, oldPath |-> o, changeType |-> "EDIT"] :
                f \in mainFiles, o \in mainFiles }
       \cup { [newPath |-> f, oldPath |-> f, changeType |-> "EDIT"] : f \in actionFiles }

InitSync ==
  /\ pc = "new Discovery"
  /\ NoSync
  /\ toolType \in {"uft", "mbt"}
  /\ scm = NoScm
  /\ NoAside
  /\ \E affectedFiles \in UNION { [1..n -> AffectedEntries] : n \in 1..MaxEntries },
        disk \in SUBSET { SyncFiles[k] : k \in 1..(Len(SyncFiles) - 1) },
        doc \in { NoActions, [k \in 1..MaxActions |-> "L"] } :
       scan = [ affectedFiles |-> affectedFiles, disk |-> disk, doc |-> doc,
                tests |-> << >>, scmResxFiles |-> << >>, results |-> << >> ]

\* Discovery.startScanning, when it runs the incremental discovery
StartScanningIncremental ==
  /\ pc = "startScanning"
  /\ \E didFullCheckout \in BOOLEAN, oldCommit \in { EMPTY, << "c" >> } :
       /\ ~didFullCheckout /\ ~Falsy(oldCommit)
       /\ LET d == doSyncDiscovery(scan, scan.affectedFiles, scan.disk, scan.doc)
          IN scan' = [d EXCEPT !.results =
                        Append(@, DiscoveryResult(d.tests, d.scmResxFiles, FALSE))]
  /\ pc' = "done"
  /\ UNCHANGED << sync, toolType, scm, aside >>

NextSync == NewDiscovery \/ StartScanningIncremental

SpecSync == InitSync /\ [][NextSync]_vars

\* the diff is one EDIT entry for a test main file that is in the working tree
OneEditOfExistingMainFile ==
  /\ Len(scan.affectedFiles) = 1
  /\ scan.affectedFiles[1].changeType = "EDIT"
  /\ isTestMainFile(joinWorkDir(scan.affectedFiles[1].newPath))
  /\ scan.affectedFiles[1].newPath \in scan.disk

\* C11: the incremental scan of such a diff returns exactly one test; it has
\* status MODIFIED, and it is marked moved exactly when its name or its
\* package differs from the name or the package of the directory of the
\* entry's old path.
C11_OneEditGivesOneModifiedTest ==
  (pc = "done" /\ OneEditOfExistingMainFile) =>
    LET ts == scan.results[1].tests
        oldDir == getParentFolderFullPath(joinWorkDir(scan.affectedFiles[1].oldPath))
    IN /\ Len(ts) = 1
       /\ ts[1].octaneStatus = S_MODIFIED
       /\ ts[1].isMoved <=> (ts[1].name # basename(oldDir)
                               \/ ts[1].packageName # packageNameOf(oldDir))

\* the segments of the folder of a test, relative to the working directory
TestFolderOf(t) ==
  (IF isBlank(t.packageName) THEN << >> ELSE split(t.packageName, BS)) \o << t.name >>

\* the relative path of the file lies inside the folder of the test
LiesInside(file, t) ==
  LET dir == SubSeq(file.relativePath, 1, Len(file.relativePath) - 1)
      folder == TestFolderOf(t)
  IN Len(dir) >= Len(folder) /\ SubSeq(dir, 1, Len(folder)) = folder

\* the instance after the change detection of the scan, before the post-pass
Detected ==
  doChangeSetDetection([scan EXCEPT !.tests = << >>, !.scmResxFiles = << >>,
                                    !.results = << >>],
                       scan.affectedFiles, scan.disk, scan.doc)

\* C28: after the incremental post-pass a resource file has been removed
\* exactly when it lies inside the folder of a test of its own bucket, NEW
\* files against NEW tests and DELETED files against DELETED tests; every
\* other resource file is in the result
C28_RemovedExactlyWhenInsideTestOfBucket ==
  pc = "done" =>
    \A k \in 1..Len(Detected.scmResxFiles) :
      LET file == Detected.scmResxFiles[k]
          retained == \E n \in 1..Len(scan.results[1].scmResxFiles) :
                        scan.results[1].scmResxFiles[n] = file
      IN ~retained <=>
           \E i \in 1..Len(Detected.tests) :
             /\ Detected.tests[i].octaneStatus = file.octaneStatus
             /\ file.octaneStatus \in {S_NEW, S_DELETED}
             /\ LiesInside(file, Detected.tests[i])

-----------------------------------------------------------------------------
(* Result aggregation: JUnitXmlIterator over the cases of a run, and the
   reader of the tool's result tree *)

MaxCases == 2
MaxNodes == 2

\* a report node as the XML parser returns it: the type attribute, the Data
\* child, and the child report nodes (one child or an array of them, which the
\* readers below both turn into an array)
ReportNode(type, name, result, children) ==
  [type |-> type, data |-> [name |-> name, result |-> result, description |-> EMPTY],
   reportNode |-> children]

\* /warning/i and /failed|warning/i on the results the tool writes
testWarning(result) == result = "Warning"
testFailedOrWarning(result) == result \in {"Failed", "Warning"}

RECURSIVE getMBTIterationsInternal(_, _, _, _)
getMBTIterationsInternal(node, parents, nodeType, targetLevel) ==
  LET ps == Append(parents, node.data.name)
      own == IF Len(ps) = targetLevel /\ nodeType = node.type THEN << node >> ELSE << >>
      below == IF node.reportNode # << >> /\ Len(ps) < targetLevel
               THEN FlatMap([k \in 1..Len(node.reportNode) |->
                      getMBTIterationsInternal(node.reportNode[k], ps, nodeType, targetLevel)])
               ELSE << >>
  IN own \o below

\* getErrorDataInternal: the error texts of the nodes from a failed node down;
\* a node of a non-final type, or one without a description, adds none
notFinalNodeType == {"Iteration", "Action", "Context"}

RECURSIVE getErrorDataInternal(_)
getErrorDataInternal(node) ==
  IF testFailedOrWarning(node.data.result)
  THEN (IF node.type \notin notFinalNodeType /\ node.data.description # EMPTY
        THEN << node.data.description >> ELSE << >>)
       \o FlatMap([k \in 1..Len(node.reportNode) |->
                    getErrorDataInternal(node.reportNode[k])])
  ELSE << >>

RECURSIVE getMBTDataInternal(_, _, _, _)
getMBTDataInternal(node, parents, nodeType, targetLevel) ==
  LET ps == Append(parents, node.data.name)
      failed == testFailedOrWarning(node.data.result)
      errorMessage == IF failed THEN FlatMap(getErrorDataInternal(node)) ELSE EMPTY
      status == IF testWarning(node.data.result) THEN "Passed" ELSE node.data.result
      own == IF Len(ps) = targetLevel /\ nodeType = node.type
             THEN << [parents |-> ps, type |-> node.type, result |-> status,
                      message |-> errorMessage] >>
             ELSE << >>
      below == IF node.reportNode # << >> /\ Len(ps) < targetLevel
               THEN FlatMap([k \in 1..Len(node.reportNode) |->
                      getMBTDataInternal(node.reportNode[k], ps, nodeType, targetLevel)])
               ELSE << >>
  IN own \o below

convertIterationsToRunResults(iterations) ==
  [i \in 1..Len(iterations) |->
    [steps |-> [k \in 1..Len(iterations[i].steps) |->
                 LET uftStep == iterations[i].steps[k]
                 IN [name |-> uftStep.parents[Len(uftStep.parents)],
                     status |-> uftStep.result,
                     errorMessage |-> uftStep.message]]]]

\* a result file without a report node under its root element
NoReportNode == [type |-> "none"]

getMBTDataFromRoot(file) ==
  IF file = NoReportNode THEN << >>
  ELSE LET iterationRptNodes == getMBTIterationsInternal(file, << >>, "Iteration", 2)
       IN convertIterationsToRunResults(
            [i \in 1..Len(iterationRptNodes) |->
              [steps |-> getMBTDataInternal(iterationRptNodes[i], << file.data.name >>,
                                            "Action", 3)]])

getMBTData(file) ==
  IF file = NoReportNode THEN << >>
  ELSE LET iterationRptNodes == getMBTIterationsInternal(file, << >>, "Iteration", 2)
       IN convertIterationsToRunResults(
            [i \in 1..Len(iterationRptNodes) |->
              [steps |-> getMBTDataInternal(iterationRptNodes[i], << >>, "Action", 3)]])

JUnitTestResult(testName, result, resultData, runId) ==
  [testName |-> testName, result |-> result, resultData |-> resultData, runId |-> runId]

\* JUnitXmlIterator.processTestCase on the iterator it
processTestCase(it, tc) ==
  LET status == IF tc.errorDetails # EMPTY THEN "Failed"
                ELSE IF tc.skipped THEN "Skipped" ELSE "Passed"
      resultData == IF MapHas(it.runResultsFilesMap, tc.runId)
                    THEN getMBTData(MapGet(it.runResultsFilesMap, tc.runId))
                    ELSE it.resultData
      testResult == JUnitTestResult(tc.testName, status, resultData, tc.runId)
  IN [it EXCEPT !.resultData = resultData,
                !.testNameToJunitResultMap = MapSet(@, tc.testName, testResult)]

\* the result trees: under the root up to MaxNodes nodes that are iterations
\* or not, under each at most one node, and under that up to MaxNodes nodes
\* that are actions or steps
SeqsUpTo(S, n) == UNION { [1..k -> S] : k \in 0..n }
StepNodes == { ReportNode(t, << "s" >>, r, << >>) :
                 t \in {"Action", "Step"}, r \in {"Passed", "Warning"} }
ActionNodes == { ReportNode(t, << "a" >>, "Passed", c) :
                   t \in {"Action", "Context"}, c \in SeqsUpTo(StepNodes, MaxNodes) }
IterationNodes == { ReportNode(t, << "i" >>, "Passed", c) :
                      t \in {"Iteration", "Action"}, c \in SeqsUpTo(ActionNodes, 1) }
ResultFiles == { NoReportNode }
                 \cup { ReportNode("testrun", << "r" >>, "Passed", c) :
                          c \in SeqsUpTo(IterationNodes, MaxNodes) }

\* a result file with one iteration, one action and one step under it
OtherRun == ReportNode("testrun", << "r" >>, "Passed",
              << ReportNode("Iteration", << "i" >>, "Passed",
                   << ReportNode("Action", << "a" >>, "Passed",
                        << ReportNode("Action", << "s" >>, "Passed", << >>) >>) >>) >>)

CaseResults ==
  { [testName |-> << "a" >>, runId |-> 42, skipped |-> FALSE, errorDetails |-> EMPTY],
    [testName |-> << "b" >>, runId |-> 42, skipped |-> TRUE, errorDetails |-> EMPTY],
    [testName |-> << "a" >>, runId |-> 41, skipped |-> FALSE, errorDetails |-> << "e" >>],
    [testName |-> << "b" >>, runId |-> 7, skipped |-> FALSE, errorDetails |-> EMPTY] }

InitReport ==
  /\ pc = "new JUnitXmlIterator"
  /\ NoSync
  /\ toolType = "mbt"
  /\ scm = NoScm
  /\ scan = NoScan
  /\ conv = << >> /\ event = << >> /\ NoBeside
  /\ \E file \in ResultFiles :
       report = [runResultsFilesMap |-> << << 41, OtherRun >>, << 42, file >> >>,
                 resultData |-> << >>,
                 testNameToJunitResultMap |-> << >>,
                 cases |-> 0]

\* new JUnitXmlIterator(buildInfo, buildStarted, runResultsFilesMap)
NewJUnitXmlIterator ==
  /\ pc = "new JUnitXmlIterator"
  /\ pc' = "processXmlResult"
  /\ report' = [report EXCEPT !.resultData = << >>, !.testNameToJunitResultMap = << >>]
  /\ UNCHANGED << sync, toolType, scm, scan, conv, event, beside >>

\* one turn of the loop of processXmlResult over the cases of the suites
ProcessTestCase ==
  /\ pc = "processXmlResult"
  /\ report.cases < MaxCases
  /\ \E tc \in CaseResults :
       report' = [processTestCase(report, tc) EXCEPT !.cases = @ + 1]
  /\ UNCHANGED << pc, sync, toolType, scm, scan, conv, event, beside >>

NextReport == NewJUnitXmlIterator \/ ProcessTestCase

SpecReport == InitReport /\ [][NextReport]_vars

\* the nodes of a result file counted by position: the iterations are the
\* root's children of type Iteration, the action steps are the children of
\* type Action of the children of an iteration
IterationCount(file) ==
  IF file = NoReportNode THEN 0
  ELSE Cardinality({ i \in 1..Len(file.reportNode) : file.reportNode[i].type = "Iteration" })

ActionCount(file) ==
  IF file = NoReportNode THEN 0
  ELSE Cardinality({ p \in (1..MaxNodes) \X (1..MaxNodes) \X (1..MaxNodes) :
         /\ p[1] <= Len(file.reportNode)
         /\ file.reportNode[p[1]].type = "Iteration"
         /\ p[2] <= Len(file.reportNode[p[1]].reportNode)
         /\ p[3] <= Len(file.reportNode[p[1]].reportNode[p[2]].reportNode)
         /\ file.reportNode[p[1]].reportNode[p[2]].reportNode[p[3]].type = "Action" })

stepCount(resultData) ==
  FoldSeq(LAMBDA n, it : n + Len(it.steps), 0, resultData)

\* getTestResults, the results of the cases of one run
ResultsOfRun(runId) ==
  { r \in { report.testNameToJunitResultMap[k][2] :
              k \in 1..Len(report.testNameToJunitResultMap) } : r.runId = runId }

\* C12 as stated: the result of a case of run 42, whose result file is in the
\* lookup map, has result data that is not empty, and as many steps as the
\* file has action nodes at the action depth under its iterations
C12_ResultDataNotEmpty ==
  \A r \in ResultsOfRun(42) :
    /\ r.resultData # << >>
    /\ stepCount(r.resultData) = ActionCount(MapGet(report.runResultsFilesMap, 42))

\* C12, amended: the result of a case of run 42 has one entry of result data
\* for each iteration node of the file, so that it is not empty exactly when
\* the file has an iteration node, and as many steps as the file has action
\* nodes at the action depth under its iterations
C12_ResultDataPerIteration ==
  \A r \in ResultsOfRun(42) :
    LET file == MapGet(report.runResultsFilesMap, 42)
    IN /\ Len(r.resultData) = IterationCount(file)
       /\ (r.resultData # << >>) <=> (IterationCount(file) > 0)
       /\ stepCount(r.resultData) = ActionCount(file)

C12_Witness ==
  \E r \in ResultsOfRun(42) :
    LET file == MapGet(report.runResultsFilesMap, 42)
    IN /\ r.resultData # << >>
       /\ stepCount(r.resultData) = 2
       /\ IterationCount(file) < Len(file.reportNode)
       /\ \E i \in 1..Len(file.reportNode) :
            /\ file.reportNode[i].type = "Iteration"
            /\ file.reportNode[i].reportNode # << >>
            /\ file.reportNode[i].reportNode[1].type = "Action"

\* C21: the result of a case whose runId (7) has no result file in the lookup
\* map has empty result data, never the steps loaded for a case processed
\* before it
C21_NoFileGivesEmptyResultData ==
  \A r \in ResultsOfRun(7) :
    ~MapHas(report.runResultsFilesMap, 7) => r.resultData = << >>

-----------------------------------------------------------------------------
(* Data preparation: the data table of a run as a base64 CSV payload *)

MaxChars == 3
MaxCells == 2

\* the characters of a cell: an ordinary one, the double quote, the comma,
\* the line feed and the carriage return
QUOTE == "\""
COMMA == ","
LF == "\n"
CR == "\r"
CsvChars == {"x", QUOTE, COMMA, LF, CR}

endsWith(s, c) == s # << >> /\ s[Len(s)] = c

\* value.slice(1, -1)
sliceOuter(s) == SubSeq(s, 2, Len(s) - 1)

\* value.replace(/"/g, '""')
doubleQuotes(s) ==
  FlatMap([i \in 1..Len(s) |-> IF s[i] = QUOTE THEN << QUOTE, QUOTE >> ELSE << s[i] >>])

\* /[",\n\r]/.test(value)
testSpecial(s) == \E i \in 1..Len(s) : s[i] \in {QUOTE, COMMA, LF, CR}

escapeCsvValKeepingQuotes(value) ==
  LET v1 == IF SeqHas(value, QUOTE) THEN doubleQuotes(value) ELSE value
  IN IF testSpecial(v1) THEN << QUOTE >> \o v1 \o << QUOTE >> ELSE v1

escapeCsvVal(value) ==
  LET v0 == IF value # << >> /\ Head(value) = QUOTE /\ endsWith(value, QUOTE)
            THEN sliceOuter(value) ELSE value
      v1 == IF SeqHas(v0, QUOTE) THEN doubleQuotes(v0) ELSE v0
  IN IF testSpecial(v1) THEN << QUOTE >> \o v1 \o << QUOTE >> ELSE v1

\* Array.join
RECURSIVE join(_, _)
join(arr, sep) ==
  IF arr = << >> THEN << >>
  ELSE IF Len(arr) = 1 THEN arr[1]
  ELSE arr[1] \o << sep >> \o join(Tail(arr), sep)

\* Buffer.from(str, 'utf-8'): each of the characters is one byte
charCode(c) ==
  CASE c = "x" -> 120 [] c = QUOTE -> 34 [] c = COMMA -> 44 [] c = LF -> 10 [] c = CR -> 13

utf8(str) == [i \in 1..Len(str) |-> charCode(str[i])]

\* Buffer.toString('base64'): the sextets of each three bytes, 64 for the pad
PAD == 64

RECURSIVE toBase64(_)
toBase64(bytes) ==
  IF bytes = << >> THEN << >>
  ELSE IF Len(bytes) = 1
    THEN LET n == bytes[1] * 65536
         IN << n \div 262144, (n \div 4096) % 64, PAD, PAD >>
  ELSE IF Len(bytes) = 2
    THEN LET n == bytes[1] * 65536 + bytes[2] * 256
         IN << n \div 262144, (n \div 4096) % 64, (n \div 64) % 64, PAD >>
  ELSE LET n == bytes[1] * 65536 + bytes[2] * 256 + bytes[3]
       IN << n \div 262144, (n \div 4096) % 64, (n \div 64) % 64, n % 64 >>
            \o toBase64(SubSeq(bytes, 4, Len(bytes)))

\* extractDataTableIterations: the escaped rows, and the payload
csvRowsOf(data) ==
  << [j \in 1..Len(data.parameters) |-> escapeCsvVal(data.parameters[j])] >>
    \o [i \in 1..Len(data.iterations) |->
         [j \in 1..Len(data.iterations[i]) |-> escapeCsvVal(data.iterations[i][j])]]

extractDataTableIterations(data) ==
  IF Len(data.parameters) > 0
  THEN LET rows == csvRowsOf(data)
           csvStr == join([i \in 1..Len(rows) |-> join(rows[i], COMMA)], LF)
       IN toBase64(utf8(csvStr))
  ELSE EMPTY

\* the reader of the payload, which is the tool's: base64 to bytes, bytes to
\* characters, then the rows at the line feeds and the fields at the commas
\* that are outside quotes, each field unescaped
RECURSIVE fromBase64(_)
fromBase64(sextets) ==
  IF sextets = << >> THEN << >>
  ELSE LET q == SubSeq(sextets, 1, 4)
           n == q[1] * 262144 + q[2] * 4096
                  + (IF q[3] = PAD THEN 0 ELSE q[3] * 64) + (IF q[4] = PAD THEN 0 ELSE q[4])
           three == << n \div 65536, (n \div 256) % 256, n % 256 >>
           k == IF q[3] = PAD THEN 1 ELSE IF q[4] = PAD THEN 2 ELSE 3
       IN SubSeq(three, 1, k) \o fromBase64(SubSeq(sextets, 5, Len(sextets)))

fromUtf8(bytes) ==
  [i \in 1..Len(bytes) |-> CHOOSE c \in CsvChars : charCode(c) = bytes[i]]

RECURSIVE undoubleQuotes(_)
undoubleQuotes(s) ==
  IF s = << >> THEN << >>
  ELSE IF Len(s) >= 2 /\ s[1] = QUOTE /\ s[2] = QUOTE
    THEN << QUOTE >> \o undoubleQuotes(SubSeq(s, 3, Len(s)))
  ELSE << s[1] >> \o undoubleQuotes(Tail(s))

unescapeCsvVal(field) ==
  IF Len(field) >= 2 /\ Head(field) = QUOTE /\ endsWith(field, QUOTE)
  THEN undoubleQuotes(sliceOuter(field)) ELSE field

\* splits str at the separators that have an even number of quotes before them
RECURSIVE splitOutsideQuotes(_, _, _, _)
splitOutsideQuotes(str, sep, cur, inQuotes) ==
  IF str = << >> THEN << cur >>
  ELSE IF Head(str) = sep /\ ~inQuotes
    THEN << cur >> \o splitOutsideQuotes(Tail(str), sep, << >>, FALSE)
  ELSE splitOutsideQuotes(Tail(str), sep, Append(cur, Head(str)),
                          IF Head(str) = QUOTE THEN ~inQuotes ELSE inQuotes)

parseCsv(str) ==
  IF str = << >> THEN << >>
  ELSE LET lines == splitOutsideQuotes(str, LF, << >>, FALSE)
       IN [i \in 1..Len(lines) |->
            LET fields == splitOutsideQuotes(lines[i], COMMA, << >>, FALSE)
            IN [j \in 1..Len(fields) |-> unescapeCsvVal(fields[j])]]

\* the data tables: one to MaxCells parameters without iterations, or one
\* parameter and up to MaxCells - 1 iterations, or no parameter at all
CsvValues == UNION { [1..n -> CsvChars] : n \in 0..MaxChars }
DataSets ==
  { [parameters |-> << >>, iterations |-> << >>] }
  \cup { [parameters |-> ps, iterations |-> << >>] :
           ps \in UNION { [1..n -> CsvValues \ {EMPTY}] : n \in 1..MaxCells } }
  \cup { [parameters |-> << p >>, iterations |-> [i \in 1..Len(vs) |-> << vs[i] >>]] :
           p \in { << "x" >> }, vs \in UNION { [1..n -> CsvValues] : n \in 1..(MaxCells - 1) } }

InitConv ==
  /\ pc = "buildMbtTestInfo"
  /\ NoSync
  /\ toolType = "mbt"
  /\ scm = NoScm
  /\ scan = NoScan
  /\ report = << >> /\ event = << >> /\ NoBeside
  /\ \E data \in DataSets :
       conv = [data |-> data, csvRows |-> << >>, encodedIterationsStr |-> EMPTY]

\* buildMbtTestInfo, as far as the data table goes
BuildMbtTestInfo ==
  /\ pc = "buildMbtTestInfo"
  /\ pc' = "done"
  /\ conv' = [conv EXCEPT
       !.csvRows = IF Len(conv.data.parameters) > 0 THEN csvRowsOf(conv.data) ELSE << >>,
       !.encodedIterationsStr = extractDataTableIterations(conv.data)]
  /\ UNCHANGED << sync, toolType, scm, scan, report, event, beside >>

NextConv == BuildMbtTestInfo

SpecConv == InitConv /\ [][NextConv]_vars

\* the table of a data set: the parameter names, then the iterations
tableOf(data) ==
  IF data.parameters = << >> THEN << >> ELSE << data.parameters >> \o data.iterations

CellsOf(data) ==
  { data.parameters[j] : j \in 1..Len(data.parameters) }
  \cup UNION { { data.iterations[i][j] : j \in 1..Len(data.iterations[i]) } :
               i \in 1..Len(data.iterations) }

wrapped(value) == value # << >> /\ Head(value) = QUOTE /\ endsWith(value, QUOTE)

describedEscape(value) ==
  LET v0 == IF Len(value) >= 2 /\ Head(value) = QUOTE /\ endsWith(value, QUOTE)
            THEN sliceOuter(value) ELSE value
      v1 == doubleQuotes(v0)
  IN IF \E i \in 1..Len(v1) : v1[i] \in {COMMA, QUOTE, LF, CR}
     THEN << QUOTE >> \o v1 \o << QUOTE >> ELSE v1

\* C14: every cell is escaped as described; a value with a double quote in
\* the middle comes out with the quote doubled and wrapped in quotes, and a
\* value wrapped in quotes comes out without them
C14_EscapedAsDescribed ==
  pc = "done" =>
    /\ \A i \in 1..Len(conv.csvRows) : \A j \in 1..Len(conv.csvRows[i]) :
         conv.csvRows[i][j] = describedEscape(tableOf(conv.data)[i][j])
    /\ \A i \in 1..Len(conv.csvRows) : \A j \in 1..Len(conv.csvRows[i]) :
         /\ tableOf(conv.data)[i][j] = << "x", QUOTE, "x" >>
              => conv.csvRows[i][j] = << QUOTE, "x", QUOTE, QUOTE, "x", QUOTE >>
         /\ tableOf(conv.data)[i][j] = << QUOTE, "x", QUOTE >>
              => conv.csvRows[i][j] = << "x" >>

-----------------------------------------------------------------------------
(* eventHandler.handleCurrentEvent on the events that trigger a discovery:
   the persisted sync state, the interval guard, the scan, the sync, and the
   saving of the synced commit *)

MaxRuns == 3
MaxTicks == 3
MsPerTick == 30000
MsPerMinute == 60000

\* the head commits of the runs, and the intervals of the configuration
Commits == { << "c", "1" >>, << "c", "2" >> }
MinSyncIntervals == {0, 1}

\* the file is not there (ENOENT)
NoFile == << "ENOENT" >>

\* getSyncedCommit, when the read does not fail
getSyncedCommit(ev) == IF ev.syncedCommitFile = NoFile THEN EMPTY ELSE ev.syncedCommitFile

\* getSyncedTimestamp, when the read does not fail
getSyncedTimestamp(ev) ==
  IF ev.syncedTimestampFile.exists THEN ev.syncedTimestampFile.time ELSE 0

isMinSyncIntervalElapsedSinceEpoch(ev, minSyncInterval) ==
  ev.now >= minSyncInterval * MsPerMinute

\* isMinSyncIntervalElapsed: (dtNow - lastSyncedTimestamp) / 60000 >= minSyncInterval
isMinSyncIntervalElapsed(ev, minSyncInterval) ==
  ev.now - getSyncedTimestamp(ev) >= minSyncInterval * MsPerMinute

handlerOrderSavingBeforeDispatch(step) ==
  CASE step = "startScanning" -> "mbtPrepDiscoveryRes4Sync"
    [] step = "mbtPrepDiscoveryRes4Sync" -> "saveSyncedCommit"
    [] step = "saveSyncedCommit" -> "dispatchDiscoveryResults"
    [] OTHER -> "END"

\* handleCurrentEvent from the scan on: the step it awaits after step
handlerOrder(step) ==
  CASE step = "startScanning" -> "mbtPrepDiscoveryRes4Sync"
    [] step = "mbtPrepDiscoveryRes4Sync" -> "dispatchDiscoveryResults"
    [] step = "dispatchDiscoveryResults" -> "saveSyncedCommit"
    [] OTHER -> "END"

\* the state of a run that has not read anything yet
newRun(ev, head, now) ==
  [ev EXCEPT !.runs = @ + 1, !.head = head, !.now = now, !.oldCommit = EMPTY,
             !.newCommit = EMPTY, !.completed = << >>, !.cancelRequests = 0,
             !.failedAt = "none"]

throw(ev, step) == [ev EXCEPT !.failedAt = step]

InitEvent ==
  /\ pc = "END"
  /\ NoSync
  /\ toolType = "mbt"
  /\ scm = NoScm
  /\ scan = NoScan
  /\ report = << >> /\ conv = << >> /\ NoBeside
  /\ \E minSyncInterval \in MinSyncIntervals :
       event = [ syncedCommitFile |-> NoFile, syncedTimestampFile |-> [exists |-> FALSE, time |-> 0],
                 minSyncInterval |-> minSyncInterval, now |-> 0, head |-> << "c", "1" >>,
                 runs |-> 0, oldCommit |-> EMPTY, newCommit |-> EMPTY,
                 completed |-> << >>, cancelRequests |-> 0, failedAt |-> "none" ]

Idle == pc \in {"END", "return", "throw"}

\* a push or a workflow dispatch starts handleCurrentEvent: up to the case PUSH
HandleCurrentEvent ==
  /\ Idle
  /\ event.runs < MaxRuns
  /\ \E head \in Commits, ticks \in 0..MaxTicks :
       /\ event.now + ticks * MsPerTick <= MaxTicks * MsPerTick
       /\ event' = newRun(event, head, event.now + ticks * MsPerTick)
  /\ pc' = "getSyncedCommit"
  /\ UNCHANGED << sync, toolType, scm, scan, report, conv, beside >>

\* const oldCommit = await getSyncedCommit()
GetSyncedCommit ==
  /\ pc = "getSyncedCommit"
  /\ \/ /\ event' = [event EXCEPT !.oldCommit = getSyncedCommit(event)]
        /\ pc' = IF Falsy(getSyncedCommit(event)) THEN "startScanning"
                 ELSE "isMinSyncIntervalElapsed"
     \/ /\ event.syncedCommitFile # NoFile
        /\ event' = throw(event, "getSyncedCommit")
        /\ pc' = "throw"
  /\ UNCHANGED << sync, toolType, scm, scan, report, conv, beside >>

\* the guard: isMinSyncIntervalElapsed, then cancelWorkflowRun and return
IsMinSyncIntervalElapsed ==
  /\ pc = "isMinSyncIntervalElapsed"
  /\ \/ /\ isMinSyncIntervalElapsed(event, event.minSyncInterval)
        /\ pc' = "startScanning"
        /\ UNCHANGED event
     \/ /\ ~isMinSyncIntervalElapsed(event, event.minSyncInterval)
        /\ event' = [event EXCEPT !.cancelRequests = @ + 1]
        /\ pc' = "return"
     \/ /\ event.syncedTimestampFile.exists
        /\ event' = throw(event, "getSyncedTimestamp")
        /\ pc' = "throw"
  /\ UNCHANGED << sync, toolType, scm, scan, report, conv, beside >>

\* discovery.startScanning(oldCommit), then doTestSync: the reconciliation
\* and the dispatch; each of them ends or throws
AwaitStep ==
  /\ pc \in {"startScanning", "mbtPrepDiscoveryRes4Sync", "dispatchDiscoveryResults"}
  /\ \/ /\ event' = [event EXCEPT
               !.completed = Append(@, pc),
               !.newCommit = IF pc = "startScanning" THEN event.head ELSE @]
        /\ pc' = IF handlerOrder(pc) = "saveSyncedCommit" /\ event.newCommit = event.oldCommit
                 THEN "END" ELSE handlerOrder(pc)
     \/ /\ event' = throw(event, pc)
        /\ pc' = "throw"
  /\ UNCHANGED << sync, toolType, scm, scan, report, conv, beside >>

\* saveSyncedCommit(newCommit): the commit file, then the timestamp file
SaveSyncedCommit ==
  /\ pc = "saveSyncedCommit"
  /\ \/ /\ isBlank(event.newCommit)
        /\ pc' = handlerOrder(pc)
        /\ UNCHANGED event
     \/ /\ ~isBlank(event.newCommit)
        /\ \E ticks \in 0..1 :
             /\ event.now + ticks * MsPerTick <= MaxTicks * MsPerTick
             /\ event' = [event EXCEPT !.syncedCommitFile = event.newCommit,
                                       !.now = @ + ticks * MsPerTick,
                                       !.syncedTimestampFile =
                                         [exists |-> TRUE, time |-> event.now + ticks * MsPerTick],
                                       !.completed = Append(@, pc)]
        /\ pc' = handlerOrder(pc)
     \/ /\ ~isBlank(event.newCommit)
        /\ event' = [throw(event, "saveSyncedTimestamp") EXCEPT
                       !.syncedCommitFile = event.newCommit]
        /\ pc' = "throw"
     \/ /\ ~isBlank(event.newCommit)
        /\ event' = throw(event, pc)
        /\ pc' = "throw"
  /\ UNCHANGED << sync, toolType, scm, scan, report, conv, beside >>

NextEvent ==
  \/ HandleCurrentEvent
  \/ GetSyncedCommit
  \/ IsMinSyncIntervalElapsed
  \/ AwaitStep
  \/ SaveSyncedCommit

SpecEvent == InitEvent /\ [][NextEvent]_vars

Completed(ev, step) == SeqHas(ev.completed, step)

\* C18: the commit file changes only in a run whose reconciliation and
\* dispatch have ended without throwing, and then to the new head commit; a
\* run in which the scan, the reconciliation or the dispatch throws leaves
\* in the file the commit that the run read from it.
C18_CommitSavedAfterSync ==
  [][/\ event'.syncedCommitFile # event.syncedCommitFile =>
          /\ Completed(event, "mbtPrepDiscoveryRes4Sync")
          /\ Completed(event, "dispatchDiscoveryResults")
          /\ event.failedAt = "none"
          /\ event'.syncedCommitFile = event.head
     /\ event'.failedAt \in {"startScanning", "mbtPrepDiscoveryRes4Sync",
                             "dispatchDiscoveryResults"} =>
          getSyncedCommit(event') = event'.oldCommit]_vars

\* one run has saved its head commit, and the next run, on another head,
\* has thrown in the dispatch with the saved commit still in the file
C18_Witness ==
  /\ pc = "throw"
  /\ event.failedAt = "dispatchDiscoveryResults"
  /\ event.runs = 2
  /\ event.syncedCommitFile = event.oldCommit
  /\ event.newCommit # event.oldCommit

\* less than the configured interval has gone by since the saved timestamp
TooEarly(ev) ==
  /\ ev.syncedTimestampFile.exists
  /\ ev.now - ev.syncedTimestampFile.time < ev.minSyncInterval * MsPerMinute

\* C19: when the handler, with a synced commit on disk, finds that less than
\* the configured interval has gone by since the saved timestamp, it asks for
\* the run to be cancelled and returns; and no scan starts in a run that is
\* too early.
C19_TooEarlyCancelsTheRun ==
  [][/\ (pc = "isMinSyncIntervalElapsed" /\ TooEarly(event) /\ pc' # "throw") =>
          /\ pc' = "return"
          /\ event'.cancelRequests = event.cancelRequests + 1
          /\ event'.completed = << >>
     /\ (pc' = "startScanning" /\ ~Falsy(event'.oldCommit)) => ~TooEarly(event')]_vars

\* a run has returned after asking for the cancellation, less than the
\* interval after an earlier run saved its timestamp
C19_Witness ==
  /\ pc = "return"
  /\ event.cancelRequests = 1
  /\ TooEarly(event)
  /\ event.now > event.syncedTimestampFile.time
  /\ event.completed = << >>

----------------------------------------------------------------------------
\* The reconciler on the result of a full scan: the first branch of
\* mbtPrepDiscoveryRes4Sync, followed by the dispatch

\* a full scan finds every test of the working tree as a new test
FullDiscoveryResults ==
  { LET present == SelectSeq([i \in 1..Len(Identities) |-> i], LAMBDA i : f[i].c # "none")
        change(ts, i) == handleTestChanges(ts, affectedMainFile("ADD", i, i), TRUE, f[i].g)
    IN FoldSeq(change, << >>, present)
    : f \in { h \in [1..Len(Identities) -> { g \in TestGenes : g.c \in {"none", "ADD"} }] :
                Cardinality({ i \in 1..Len(Identities) : h[i].c # "none" }) <= MaxTests } }

\* fetchUnitsByScmRepository: the units of the repository that have a path
fetchUnitsByScmRepository(us) == SelectSeq(us, LAMBDA u : u.repository_path # null)

InitFull ==
  /\ toolType = "mbt"
  /\ pc = "mbtPrepDiscoveryRes4Sync"
  /\ tests \in FullDiscoveryResults
  /\ isFullSync = TRUE
  /\ units \in RemoteUnits
  /\ folders = foldersOf(units)
  /\ params = << >>
  /\ nextId = 21
  /\ calls = << >>
  /\ foldersMap = << >>
  /\ scm = NoScm
  /\ scan = NoScan
  /\ NoAside

\* mbtPrepDiscoveryRes4Sync when discoveryRes.isFullSync()
MbtPrepDiscoveryRes4Sync ==
  /\ pc = "mbtPrepDiscoveryRes4Sync"
  /\ isFullSync
  /\ tests' = removeExistingUnits(tests,
                unitsByRepositoryPath(fetchUnitsByScmRepository(units)))
  /\ pc' = "dispatchNewActions"
  /\ UNCHANGED << isFullSync, remote, toolType, scm, scan, aside >>

NextFull ==
  \/ MbtPrepDiscoveryRes4Sync
  \/ DispatchNewActions
  \/ DispatchDeletedActions
  \/ DispatchUpdatedActions

SpecFull == InitFull /\ [][NextFull]_vars

\* the reconciler's step on a full-sync result
FullSyncStep == pc = "mbtPrepDiscoveryRes4Sync" /\ isFullSync

\* the name, status and id of the actions of a list
StatusAndIdOf(actions) ==
  [a \in 1..Len(actions) |->
     << actions[a].name, actions[a].octaneStatus, actions[a].id >>]

\* C27 as stated: given a full-sync result the reconciler changes no test's
\* action list and no action's status or id
C27_FullSyncChangesNothing ==
  [][FullSyncStep =>
       /\ Len(tests') = Len(tests)
       /\ \A t \in 1..Len(tests) :
            StatusAndIdOf(tests'[t].actions) = StatusAndIdOf(tests[t].actions)]_vars

\* the remote units of the repository with the repository path of the action
UnitsWithRepositoryPathOf(action) ==
  { n \in 1..Len(units) :
      /\ ~Falsy(action.repositoryPath)
      /\ units[n].repository_path = action.repositoryPath }

\* C27, amended: given a full-sync result the reconciler runs none of the
\* incremental passes, so that it changes nothing of a test but its action
\* list; it removes an action only when a remote unit of the repository with
\* the action's repository path has a test runner, it changes the status
\* and id of an action only to MODIFIED and the id of a remote unit with its
\* path and without runner, it leaves every action whose path is on no
\* remote unit as it was, and it keeps the order of the actions
C27_FullSyncOnlyRemovesExisting ==
  [][FullSyncStep =>
       /\ Len(tests') = Len(tests)
       /\ \A t \in 1..Len(tests) :
            /\ [tests'[t] EXCEPT !.actions = tests[t].actions] = tests[t]
            /\ \A a \in 1..Len(tests[t].actions) :
                 LET action == tests[t].actions[a]
                     kept == { b \in 1..Len(tests'[t].actions) :
                                 tests'[t].actions[b].name = action.name }
                     U == UnitsWithRepositoryPathOf(action)
                 IN IF U = {}
                      THEN \E b \in kept : tests'[t].actions[b] = action
                      ELSE \/ /\ kept = {}
                              /\ \E n \in U : units[n].test_runner # "null"
                           \/ \E b \in kept : \E n \in U :
                                /\ units[n].test_runner = "null"
                                /\ tests'[t].actions[b] =
                                     [action EXCEPT !.octaneStatus = S_MODIFIED,
                                                    !.id = units[n].id]
            /\ \A b \in 1..Len(tests'[t].actions) :
                 \E a \in b..Len(tests[t].actions) :
                   tests[t].actions[a].name = tests'[t].actions[b].name]_vars

\* the step has ended on a full-sync result: one action is MODIFIED with the
\* id of a remote unit without runner, another action is NEW, and a test
\* has lost the action of a remote unit with a runner
C27_Witness ==
  /\ pc = "dispatchNewActions"
  /\ isFullSync
  /\ \E t \in 1..Len(tests) : \E a \in 1..Len(tests[t].actions) : \E n \in 1..Len(units) :
       /\ tests[t].actions[a].octaneStatus = S_MODIFIED
       /\ tests[t].actions[a].id = units[n].id
       /\ units[n].repository_path = tests[t].actions[a].repositoryPath
       /\ units[n].test_runner = "null"
  /\ \E t \in 1..Len(tests) : \E a \in 1..Len(tests[t].actions) :
       tests[t].actions[a].octaneStatus = S_NEW
  /\ \E t \in 1..Len(tests) : \E n \in 1..Len(units) :
       /\ units[n].test_runner # "null"
       /\ startsWith(units[n].repository_path,
                     getTestPathPrefix(tests[t], FALSE) \o Str(BS))
       /\ \A a \in 1..Len(tests[t].actions) :
            tests[t].actions[a].repositoryPath # units[n].repository_path

----------------------------------------------------------------------------
\* Properties of the dispatch of NEW actions

\* the dispatch of the NEW actions has ended
NewDispatched == pc \in {"dispatchDeletedActions", "dispatchUpdatedActions", "done"}

\* the unit the remote system created in this run for a NEW action with
\* the repository path of u, which declares a parameter of that name
CreatedForActionWith(u, name) ==
  /\ u.id >= 21
  /\ \E i \in 1..Len(tests) : \E j \in 1..Len(tests[i].actions) :
       LET a == tests[i].actions[j]
       IN /\ a.octaneStatus = S_NEW
          /\ ~Falsy(a.repositoryPath)
          /\ a.repositoryPath = u.repository_path
          /\ \E n \in 1..Len(a.parameters.list) : a.parameters.list[n].name = name

----------------------------------------------------------------------------
\* Properties of the parameters after the updated-tests pass

\* the updated-tests pass has ended without throwing
UpdatedTestsPassEnded == AfterUpdatedTestsPass /\ pc # "failed"

ParamsAre(action, status) ==
  \A n \in 1..Len(action.parameters.list) :
    action.parameters.list[n].octaneStatus = status

\* C26 as stated: after the updated-tests pass every parameter of every
\* local action of a non-moved updated test has status NONE
C26_AllParamsNone ==
  UpdatedTestsPassEnded =>
    \A t \in 1..Len(tests) : \A a \in 1..Len(tests[t].actions) :
      (UpdatedTest(t) /\ IsLocal(tests[t].actions[a]))
        => ParamsAre(tests[t].actions[a], S_NONE)

\* C26, amended: after the updated-tests pass every parameter of a local
\* action of a non-moved updated test has status NONE when the pass found
\* the action's unit on the remote system (the action is NONE or MODIFIED),
\* and keeps the status NEW it was parsed with when the action is NEW
C26_MatchedParamsNone ==
  UpdatedTestsPassEnded =>
    \A t \in 1..Len(tests) : \A a \in 1..Len(tests[t].actions) :
      (UpdatedTest(t) /\ IsLocal(tests[t].actions[a])) =>
        /\ tests[t].actions[a].octaneStatus \in {S_NONE, S_MODIFIED}
             => ParamsAre(tests[t].actions[a], S_NONE)
        /\ tests[t].actions[a].octaneStatus = S_NEW
             => ParamsAre(tests[t].actions[a], S_NEW)

\* the pass has ended on an updated test with a renamed action that
\* declares a parameter, now NONE, next to one with an added action whose
\* parameter is still NEW
C26_Witness ==
  /\ pc = "handleMovedTests"
  /\ \E t \in 1..Len(tests) : \E a \in 1..Len(tests[t].actions) :
       /\ UpdatedTest(t) /\ IsLocal(tests[t].actions[a])
       /\ tests[t].actions[a].octaneStatus = S_MODIFIED
       /\ tests[t].actions[a].parameters.list # << >>
       /\ ParamsAre(tests[t].actions[a], S_NONE)
  /\ \E t \in 1..Len(tests) : \E a \in 1..Len(tests[t].actions) :
       /\ UpdatedTest(t) /\ IsLocal(tests[t].actions[a])
       /\ tests[t].actions[a].octaneStatus = S_NEW
       /\ tests[t].actions[a].parameters.list # << >>
       /\ ParamsAre(tests[t].actions[a], S_NEW)

\* a MODIFIED action of a moved test whose name has changed
MovedModified(a) ==
  /\ a.octaneStatus = S_MODIFIED
  /\ a.moved
  /\ ~Falsy(a.testName) /\ ~Falsy(a.oldTestName)
  /\ a.testName # a.oldTestName

\* the remote unit of action a lies in folder f
UnitLiesIn(us, a, f) ==
  \E n \in 1..Len(us) : us[n].id = a.id /\ us[n].parent = f.id

\* C24: when the dispatch of the updated actions ends, every MODIFIED moved
\* action whose test's new name was the name of a remote folder when the
\* dispatch began has its unit in that folder
C24_MovedActionGetsExistingFolder ==
  [][(pc = "dispatchUpdatedActions" /\ pc' = "done") =>
       \A i \in 1..Len(tests) : \A j \in 1..Len(tests[i].actions) :
         \A k \in 1..Len(folders) :
           (MovedModified(tests[i].actions[j])
              /\ folders[k].name = tests[i].actions[j].testName)
             => UnitLiesIn(units', tests[i].actions[j], folders[k])]_vars

----------------------------------------------------------------------------
\* The executor flow: handleExecutorEvent of eventHandler.ts

MaxExecutions == 2

\* the exit codes FtTestExecuter.process resolves with
ExitCodes == {"Passed", "Unstable", "Failed", "Aborted"}

\* the awaited steps of handleExecutorEvent after the start event, in order:
\* the step that follows step when step has ended without throwing
executorOrder(step, ok) ==
  CASE step = "sendExecutorStartEvent" -> "parseTestData"
    [] step = "parseTestData" -> "getMbtTestSuiteData"
    [] step = "getMbtTestSuiteData" -> "buildMbtTestInfo"
    [] step = "buildMbtTestInfo" -> "cleanupTempFolder"
    [] step = "cleanupTempFolder" -> "preProcess"
    [] step = "preProcess" -> IF ok THEN "process" ELSE "sendFinishEvent"
    [] step = "process" -> "publishResultsToOctane"
    [] step = "publishResultsToOctane" -> "sendFinishEvent"
    [] step = "sendFinishEvent" -> IF ok THEN "uploadArtifact" ELSE "return"
    [] OTHER -> "return"

\* const res = exitCode === Passed ? SUCCESS : (exitCode === Unstable ? UNSTABLE : FAILURE)
resultOf(exitCode) ==
  IF exitCode = "Passed" THEN "SUCCESS"
  ELSE IF exitCode = "Unstable" THEN "UNSTABLE" ELSE "FAILURE"

\* the state of an execution that has not awaited anything yet
newExecution(ex) ==
  [ex EXCEPT !.runs = @ + 1, !.started = 0, !.finished = << >>, !.ok = FALSE,
             !.exitCode = "Aborted", !.failedAt = "none"]

InitExec ==
  /\ pc = "END"
  /\ NoSync
  /\ toolType = "mbt"
  /\ scm = NoScm
  /\ scan = NoScan
  /\ report = << >> /\ conv = << >> /\ event = << >>
  /\ page = << >> /\ upload = << >> /\ ftl = << >>
  /\ exec = [ runs |-> 0, started |-> 0, finished |-> << >>, ok |-> FALSE,
              exitCode |-> "Aborted", failedAt |-> "none", returned |-> << >> ]

\* a workflow dispatch with the executor's inputs: handleExecutorEvent up to
\* the CI server, which is found or not
HandleExecutorEvent ==
  /\ pc \in {"END", "return", "throw"}
  /\ exec.runs < MaxExecutions
  /\ \/ /\ exec' = newExecution(exec)
        /\ pc' = "sendExecutorStartEvent"
     \/ /\ exec' = [newExecution(exec) EXCEPT !.returned = Append(@, "Aborted")]
        /\ pc' = "return"
     \/ /\ exec' = [newExecution(exec) EXCEPT !.failedAt = "getCiServer"]
        /\ pc' = "throw"
  /\ UNCHANGED << sync, toolType, scm, scan, report, conv, event, page, upload, ftl >>

\* await sendExecutorStartEvent(...)
SendExecutorStartEvent ==
  /\ pc = "sendExecutorStartEvent"
  /\ \/ /\ exec' = [exec EXCEPT !.started = @ + 1]
        /\ pc' = executorOrder(pc, exec.ok)
     \/ /\ exec' = [exec EXCEPT !.failedAt = pc]
        /\ pc' = "throw"
  /\ UNCHANGED << sync, toolType, scm, scan, report, conv, event, page, upload, ftl >>

\* the steps between the two events, each of which ends or throws; the
\* pre-processing gives ok, the tool run gives the exit code
ExecutorStep ==
  /\ pc \in {"parseTestData", "getMbtTestSuiteData", "buildMbtTestInfo",
             "cleanupTempFolder", "preProcess", "process", "publishResultsToOctane"}
  /\ \/ \E ok \in BOOLEAN, exitCode \in ExitCodes :
          /\ pc # "preProcess" => ok = exec.ok
          /\ pc # "process" => exitCode = exec.exitCode
          /\ exec' = [exec EXCEPT !.ok = ok, !.exitCode = exitCode]
          /\ pc' = executorOrder(pc, ok)
     \/ /\ exec' = [exec EXCEPT !.failedAt = pc]
        /\ pc' = "throw"
  /\ UNCHANGED << sync, toolType, scm, scan, report, conv, event, page, upload, ftl >>

\* await sendFinishEvent(res, true) or sendFinishEvent(Result.ABORTED, false)
SendFinishEvent ==
  /\ pc = "sendFinishEvent"
  /\ \/ /\ exec' = [exec EXCEPT
               !.finished = Append(@, IF exec.ok THEN resultOf(exec.exitCode) ELSE "ABORTED"),
               !.returned = IF exec.ok THEN @ ELSE Append(@, "Aborted")]
        /\ pc' = executorOrder(pc, exec.ok)
     \/ /\ exec' = [exec EXCEPT !.failedAt = pc]
        /\ pc' = "throw"
  /\ UNCHANGED << sync, toolType, scm, scan, report, conv, event, page, upload, ftl >>

\* await GitHubClient.uploadArtifact(...), then return exitCode
UploadTempFiles ==
  /\ pc = "uploadArtifact"
  /\ \/ /\ exec' = [exec EXCEPT !.returned = Append(@, exec.exitCode)]
        /\ pc' = executorOrder(pc, exec.ok)
     \/ /\ exec' = [exec EXCEPT !.failedAt = pc]
        /\ pc' = "throw"
  /\ UNCHANGED << sync, toolType, scm, scan, report, conv, event, page, upload, ftl >>

NextExec ==
  \/ HandleExecutorEvent
  \/ SendExecutorStartEvent
  \/ ExecutorStep
  \/ SendFinishEvent
  \/ UploadTempFiles

SpecExec == InitExec /\ [][NextExec]_vars

\* C22: when the handler has ended, by returning or by a step between the
\* two events throwing, after it sent the start event, it has sent exactly
\* one finish event
C22_StartedThenFinishedOnce ==
  (/\ pc \in {"return", "throw"}
   /\ exec.started = 1
   /\ exec.failedAt \notin {"sendFinishEvent", "uploadArtifact"})
    => Len(exec.finished) = 1

----------------------------------------------------------------------------
\* Paginated reads: OctaneClient.fetchEntities

MaxMatching == 3001

MAX_LIMIT == 1000

\* The entities that match the query are those with ids 1..n, and a page is
\* the range of ids it holds, << lo, hi >>. The response to
\* get(...).offset(offset).limit(limit).orderBy("id"): total_count is the
\* number of entities that match the query, or, for a remote system that
\* counts the page, the number of entities in the response
getPage(n, offset, limit, totalCountOf) ==
  LET lo == offset + 1
      hi == IF offset + limit < n THEN offset + limit ELSE n
      length == IF hi >= lo THEN hi - lo + 1 ELSE 0
  IN [ total_count |-> IF totalCountOf = "query" THEN n ELSE length,
       length |-> length,
       data |-> IF length > 0 THEN << << lo, hi >> >> ELSE << >> ]

\* entities.length
lengthOf(entities) ==
  FoldSeq(LAMBDA acc, r : acc + (r[2] - r[1] + 1), 0, entities)

\* go = res.total_count === MAX_LIMIT && res.data?.length === MAX_LIMIT
go(res) == res.total_count = MAX_LIMIT /\ res.length = MAX_LIMIT

InitPage ==
  /\ pc = "fetchEntities"
  /\ NoSync
  /\ toolType = "mbt"
  /\ scm = NoScm
  /\ scan = NoScan
  /\ report = << >> /\ conv = << >> /\ event = << >>
  /\ exec = << >> /\ upload = << >> /\ ftl = << >>
  /\ \E n \in 0..MaxMatching, totalCountOf \in {"query", "page"} :
       page = [ matching |-> n, totalCountOf |-> totalCountOf,
                entities |-> << >>, requests |-> 0 ]

\* one turn of the do-while loop of fetchEntities: the request, which may
\* throw, and the test of the condition
FetchPage ==
  /\ pc = "fetchEntities"
  /\ \/ LET res == getPage(page.matching, lengthOf(page.entities), MAX_LIMIT,
                           page.totalCountOf)
        IN /\ page' = [page EXCEPT !.entities = @ \o res.data, !.requests = @ + 1]
           /\ pc' = IF go(res) THEN "fetchEntities" ELSE "return"
     \/ /\ pc' = "throw"
        /\ UNCHANGED page
  /\ UNCHANGED << sync, toolType, scm, scan, report, conv, event, exec, upload, ftl >>

NextPage == FetchPage

SpecPage == InitPage /\ [][NextPage]_vars

\* the pages hold the ids 1..n, each once and in order
HoldsEachOnce(entities, n) ==
  /\ lengthOf(entities) = n
  /\ \A k \in 1..Len(entities) :
       entities[k][1] = (IF k = 1 THEN 1 ELSE entities[k - 1][2] + 1)

\* C25: the read returns every entity that matches the query exactly once,
\* whatever their number
C25_EveryEntityOnce ==
  pc = "return" => HoldsEachOnce(page.entities, page.matching)

----------------------------------------------------------------------------
\* Artifact uploads: TestResultManager.buildArtifacts over
\* GitHubClient.uploadArtifact

MaxUploads == 3

\* GitHubClient.uploadArtifact: the id of the response, 0 when the response
\* has none, and -1 when anything in it throws
uploadArtifact(outcome, id) ==
  CASE outcome = "uploaded" -> id
    [] outcome = "uploaded without id" -> 0
    [] OTHER -> -1

\* the loop over the settled results that stops at the first failed upload
runId2ArtifactIdMapUpToFailure(keys, results) ==
  LET firstFailed == { i \in 1..Len(results) : results[i].value.artifactId = -1 }
      upTo == IF firstFailed = {} THEN Len(results)
              ELSE (CHOOSE i \in firstFailed : \A j \in firstFailed : i <= j) - 1
  IN FoldSeq(LAMBDA m, i : MapSet(m, results[i].value.runId, results[i].value.artifactId),
             << >>, [i \in 1..upTo |-> i])

\* buildArtifacts: the loop over the settled results
runId2ArtifactIdMap(keys, results) ==
  FoldSeq(LAMBDA m, index :
            IF results[index].status = "fulfilled"
              THEN IF results[index].value.runId > 0
                     THEN MapSet(m, results[index].value.runId,
                                 results[index].value.artifactId)
                     ELSE m
              ELSE m,
          << >>, [i \in 1..Len(results) |-> i])

\* the run ids of the run-result directories found: distinct and positive
RunResultsKeys ==
  { k \in UNION { [1..n -> 1..MaxUploads] : n \in 0..MaxUploads } :
      \A i, j \in 1..Len(k) : i # j => k[i] # k[j] }

InitUpload ==
  /\ pc = "buildArtifacts"
  /\ NoSync
  /\ toolType = "mbt"
  /\ scm = NoScm
  /\ scan = NoScan
  /\ report = << >> /\ conv = << >> /\ event = << >>
  /\ exec = << >> /\ page = << >> /\ ftl = << >>
  /\ \E keys \in RunResultsKeys :
       upload = [ keys |-> keys,
                  promises |-> [i \in 1..Len(keys) |-> [state |-> "new", artifactId |-> 0]],
                  nextArtifactId |-> 101,
                  errors |-> << >>,
                  runId2ArtifactIdMap |-> << >> ]

\* the map over the entries: each callback runs up to the await of the
\* upload, or fails before it, which uploadArtifact logs and turns into -1
BuildArtifacts ==
  /\ pc = "buildArtifacts"
  /\ \E started \in [1..Len(upload.keys) -> BOOLEAN] :
       upload' = [upload EXCEPT
         !.promises = [i \in 1..Len(upload.keys) |->
                         IF started[i] THEN [state |-> "uploading", artifactId |-> 0]
                         ELSE [state |-> "failed",
                               artifactId |-> uploadArtifact("failed", 0)]],
         !.errors = SelectSeq([i \in 1..Len(upload.keys) |-> upload.keys[i]],
                              LAMBDA runId : \E i \in 1..Len(upload.keys) :
                                               upload.keys[i] = runId /\ ~started[i])]
  /\ pc' = "allSettled"
  /\ UNCHANGED << sync, toolType, scm, scan, report, conv, event, exec, page, ftl >>

\* one upload in flight ends: with an artifact, or with an error that
\* uploadArtifact logs
UploadEnds ==
  /\ pc = "allSettled"
  /\ \E i \in 1..Len(upload.keys) :
       /\ upload.promises[i].state = "uploading"
       /\ \E outcome \in {"uploaded", "uploaded without id", "failed"} :
            upload' = [upload EXCEPT
              !.promises[i] = [state |-> outcome,
                               artifactId |-> uploadArtifact(outcome, upload.nextArtifactId)],
              !.nextArtifactId = IF outcome = "failed" THEN @ ELSE @ + 1,
              !.errors = IF outcome = "failed" THEN Append(@, upload.keys[i]) ELSE @]
  /\ UNCHANGED << pc, sync, toolType, scm, scan, report, conv, event, exec, page, ftl >>

\* await Promise.allSettled(uploadPromises), then the loop over the results
AllSettled ==
  /\ pc = "allSettled"
  /\ \A i \in 1..Len(upload.keys) : upload.promises[i].state # "uploading"
  /\ LET results == [i \in 1..Len(upload.keys) |->
                       [ status |-> "fulfilled",
                         value |-> [ runId |-> upload.keys[i],
                                     artifactId |-> upload.promises[i].artifactId ] ]]
     IN upload' = [upload EXCEPT
                     !.runId2ArtifactIdMap = runId2ArtifactIdMap(upload.keys, results)]
  /\ pc' = "return"
  /\ UNCHANGED << sync, toolType, scm, scan, report, conv, event, exec, page, ftl >>

NextUpload == BuildArtifacts \/ UploadEnds \/ AllSettled

SpecUpload == InitUpload /\ [][NextUpload]_vars

\* C29: when buildArtifacts returns, every upload has been carried out to
\* its end, every failed upload has been logged, and the artifact id of
\* every upload that did not fail is recorded under its run id, whatever
\* happened to the other uploads
C29_FailureLeavesSiblingsRecorded ==
  pc = "return" =>
    \A i \in 1..Len(upload.keys) :
      /\ upload.promises[i].state \in {"uploaded", "uploaded without id", "failed"}
      /\ upload.promises[i].state = "failed" => SeqHas(upload.errors, upload.keys[i])
      /\ upload.promises[i].state # "failed" =>
           /\ MapHas(upload.runId2ArtifactIdMap, upload.keys[i])
           /\ MapGet(upload.runId2ArtifactIdMap, upload.keys[i])
                = upload.promises[i].artifactId
           /\ upload.promises[i].artifactId >= 0

\* three uploads were issued together; the first has failed, after the
\* third and before the second had ended, and both artifacts are recorded
C29_Witness ==
  /\ pc = "return"
  /\ Len(upload.keys) = 3
  /\ upload.promises[1].state = "failed"
  /\ upload.promises[2].state = "uploaded"
  /\ upload.promises[3].state = "uploaded"
  /\ upload.promises[3].artifactId < upload.promises[2].artifactId
  /\ MapGet(upload.runId2ArtifactIdMap, upload.keys[2]) = upload.promises[2].artifactId
  /\ MapGet(upload.runId2ArtifactIdMap, upload.keys[3]) = upload.promises[3].artifactId

----------------------------------------------------------------------------
\* The launcher's exit code: FTL.runTool

\* An exit code is a number of 0 .. 2^32 - 1, held as its two 16-bit halves,
\* hi * 2^16 + lo, so that every value computed from it is a 32-bit integer.
HALF == 65536

\* a member of ExitCode has a value of -MaxNegative .. MaxMember
MaxNegative == 3
MaxMember == 1

\* the enum ExitCode: its members Passed, Unstable, Aborted and Unkonwn, with
\* distinct values
ExitCodeEnums ==
  { e \in [{"Passed", "Unstable", "Aborted", "Unkonwn"} -> (-MaxNegative)..MaxMember] :
      \A m, n \in DOMAIN e : m # n => e[m] # e[n] }

\* Object.values(ExitCode).includes(normalizedCode)
includesValue(ExitCode, normalizedCode) ==
  \E m \in DOMAIN ExitCode : ExitCode[m] = normalizedCode

normalizeSubtractingMax(code) ==
  IF code.hi >= 32768 THEN (code.hi - HALF) * HALF + code.lo + 1
  ELSE code.hi * HALF + code.lo

\* normalizedCode = code > 0x7FFFFFFF ? code - 0x100000000 : code
normalize(code) ==
  IF code.hi >= 32768 THEN (code.hi - HALF) * HALF + code.lo
  ELSE code.hi * HALF + code.lo

\* the handler of the launcher's close event: the exit code it resolves with
onClose(ExitCode, code) ==
  IF ~code.isNumber THEN ExitCode["Aborted"]
  ELSE IF includesValue(ExitCode, normalize(code)) THEN normalize(code)
  ELSE ExitCode["Unkonwn"]

\* the codes a process may exit with, and null for a process that was killed
LauncherCodes ==
  { [isNumber |-> TRUE, hi |-> hi, lo |-> lo] :
      hi \in {0, 1, 32767, 32768, HALF - 1},
      lo \in {0, 1, 2, HALF - 3, HALF - 2, HALF - 1} }
    \cup { [isNumber |-> FALSE, hi |-> 0, lo |-> 0] }

InitFtl ==
  /\ pc = "runTool"
  /\ NoSync
  /\ toolType = "mbt"
  /\ scm = NoScm
  /\ scan = NoScan
  /\ report = << >> /\ conv = << >> /\ event = << >>
  /\ exec = << >> /\ page = << >> /\ upload = << >>
  /\ \E e \in ExitCodeEnums :
       ftl = [ ExitCode |-> e, closed |-> FALSE,
               code |-> [isNumber |-> FALSE, hi |-> 0, lo |-> 0], exitCode |-> 0 ]

\* runTool up to the spawn of the launcher; the access check may throw
RunTool ==
  /\ pc = "runTool"
  /\ pc' \in {"spawned", "throw"}
  /\ UNCHANGED << ftl, sync, toolType, scm, scan, report, conv, event, exec, page, upload >>

\* launcher.on('error'): the promise is rejected
LauncherError ==
  /\ pc = "spawned"
  /\ pc' = "rejected"
  /\ UNCHANGED << ftl, sync, toolType, scm, scan, report, conv, event, exec, page, upload >>

\* launcher.on('close'): the promise is resolved with the mapped exit code
LauncherClose ==
  /\ pc = "spawned"
  /\ \E code \in LauncherCodes :
       ftl' = [ftl EXCEPT !.closed = TRUE, !.code = code,
                          !.exitCode = onClose(ftl.ExitCode, code)]
  /\ pc' = "resolved"
  /\ UNCHANGED << sync, toolType, scm, scan, report, conv, event, exec, page, upload >>

NextFtl == RunTool \/ LauncherError \/ LauncherClose

SpecFtl == InitFtl /\ [][NextFtl]_vars

\* the value of a code read as a signed 32-bit integer in two's complement:
\* itself when the sign bit is clear, else minus its complement, minus one
Signed32(code) ==
  IF code.hi < 32768 THEN code.hi * HALF + code.lo
  ELSE -((HALF - 1 - code.hi) * HALF + (HALF - 1 - code.lo)) - 1

\* C30: when the launcher has closed with a numeric code the promise is
\* resolved, not rejected, with the code's signed 32-bit value when that
\* value is a member of ExitCode, and with the member Unkonwn otherwise
C30_ExitCodeIsSignedMemberOrUnknown ==
  (ftl.closed /\ ftl.code.isNumber) =>
    /\ pc = "resolved"
    /\ \E m \in DOMAIN ftl.ExitCode : ftl.exitCode = ftl.ExitCode[m]
    /\ IF \E m \in DOMAIN ftl.ExitCode : ftl.ExitCode[m] = Signed32(ftl.code)
         THEN ftl.exitCode = Signed32(ftl.code)
         ELSE ftl.exitCode = ftl.ExitCode["Unkonwn"]

\* the launcher has exited with 4294967294 and the promise is resolved with
\* the member whose value is -2
C30_Witness ==
  /\ pc = "resolved"
  /\ ftl.code = [isNumber |-> TRUE, hi |-> HALF - 1, lo |-> HALF - 2]
  /\ ftl.exitCode = -2
  /\ ftl.ExitCode["Unstable"] = -2

====
